---- MODULE Spec2Model ----
(***************************************************************************)
(* Local tenancy and resource registry of the `acs` CLI: the on-disk state *)
(* root (manifest, context, organization, credential, environments,        *)
(* projects, runtime instances) and the commands that read and write it.   *)
(*                                                                         *)
(* Strings the code inspects character by character (names, source URLs)   *)
(* are sequences of one-character strings; ids, environment names and      *)
(* project ids, which the code only compares or joins into paths, are      *)
(* TLA+ strings.  A path is the sequence of its components below the       *)
(* tenancy root, so <<>> is the root directory itself.                     *)
(***************************************************************************)
EXTENDS Integers, Sequences, FiniteSets, TLC

VARIABLES
  files,   \* path -> content of every regular file below the tenancy root
  dirs,    \* set of paths of the directories that exist (<<>> is the root)
  clock,   \* the wall clock read by `new Date().toISOString()`
  last,    \* the command that ran last and what it reported
  procs    \* the create processes that run step by step: where each one
           \* is and what it holds in memory

vars == <<files, dirs, clock, last, procs>>

(***************************************************************************)
(* Bounds of the model.                                                    *)
(***************************************************************************)
MaxClock == 1       \* the clock takes the values 0..MaxClock
MaxInstances == 2   \* instance files under the root, all scopes together
MaxRunCount == 1    \* largest runCount a run may produce
MaxCreators == 2    \* create processes that run interleaved
MaxSuffix == 3      \* largest suffix among the taken names tried on findNextAutoName

(***************************************************************************)
(* Characters and strings.                                                 *)
(***************************************************************************)
LowerLetters ==
  <<"a","b","c","d","e","f","g","h","i","j","k","l","m",
    "n","o","p","q","r","s","t","u","v","w","x","y","z">>

UpperLetters ==
  <<"A","B","C","D","E","F","G","H","I","J","K","L","M",
    "N","O","P","Q","R","S","T","U","V","W","X","Y","Z">>

DigitChars == <<"0","1","2","3","4","5","6","7","8","9">>

Range(s) == {s[i] : i \in DOMAIN s}

LowerOf ==
  [c \in Range(UpperLetters) |->
     LowerLetters[CHOOSE i \in DOMAIN UpperLetters : UpperLetters[i] = c]]

\* String.prototype.toLowerCase on one character
ToLowerChar(c) == IF c \in DOMAIN LowerOf THEN LowerOf[c] ELSE c

ToLowerCase(s) == [i \in DOMAIN s |-> ToLowerChar(s[i])]

WhiteSpace == {" ", "\t", "\n"}

IsWhiteSpace(c) == c \in WhiteSpace

RECURSIVE TrimStart(_)
TrimStart(s) ==
  IF s # <<>> /\ IsWhiteSpace(Head(s)) THEN TrimStart(Tail(s)) ELSE s

RECURSIVE TrimEnd(_)
TrimEnd(s) ==
  IF s # <<>> /\ IsWhiteSpace(s[Len(s)])
    THEN TrimEnd(SubSeq(s, 1, Len(s) - 1))
    ELSE s

\* String.prototype.trim
Trim(s) == TrimEnd(TrimStart(s))

\* the character class [a-z0-9-]
NameChars == Range(LowerLetters) \cup Range(DigitChars) \cup {"-"}

IsNameChar(c) == c \in NameChars

\* .replace(/[^a-z0-9-]+/g, "-"): every maximal run of other characters
\* becomes one "-"
RECURSIVE ReplaceInvalidRuns(_, _)
ReplaceInvalidRuns(s, inRun) ==
  IF s = <<>> THEN <<>>
  ELSE IF IsNameChar(Head(s))
    THEN <<Head(s)>> \o ReplaceInvalidRuns(Tail(s), FALSE)
    ELSE (IF inRun THEN <<>> ELSE <<"-">>) \o ReplaceInvalidRuns(Tail(s), TRUE)

\* .replace(/^-+/, "")
RECURSIVE StripLeadingDashes(_)
StripLeadingDashes(s) ==
  IF s # <<>> /\ Head(s) = "-" THEN StripLeadingDashes(Tail(s)) ELSE s

\* .replace(/-+$/, "")
RECURSIVE StripTrailingDashes(_)
StripTrailingDashes(s) ==
  IF s # <<>> /\ s[Len(s)] = "-"
    THEN StripTrailingDashes(SubSeq(s, 1, Len(s) - 1))
    ELSE s

sanitizeName(value) ==
  StripTrailingDashes(
    StripLeadingDashes(
      ReplaceInvalidRuns(Trim(ToLowerCase(value)), FALSE)))

\* the decimal digits of a natural number, as template literals print it
RECURSIVE DecimalString(_)
DecimalString(n) ==
  IF n < 10 THEN <<DigitChars[n + 1]>>
  ELSE DecimalString(n \div 10) \o <<DigitChars[(n % 10) + 1]>>

\* `${baseName}-${suffix}`
AutoCandidate(baseName, suffix) == baseName \o <<"-">> \o DecimalString(suffix)

\* the while loop of findNextAutoName, entered with `suffix`
RECURSIVE AutoNameFrom(_, _, _)
AutoNameFrom(baseName, existingNames, suffix) ==
  IF AutoCandidate(baseName, suffix) \in existingNames
    THEN AutoNameFrom(baseName, existingNames, suffix + 1)
    ELSE AutoCandidate(baseName, suffix)

\* variants of findNextAutoName: the first candidate whatever is taken;
\* the suffix counted from the taken names; the bare base name tried
\* first; the scan entered at 0
findNextAutoNameNoScan(baseName, existingNames) == AutoCandidate(baseName, 1)

findNextAutoNameByCount(baseName, existingNames) ==
  AutoCandidate(baseName, Cardinality(existingNames) + 1)

findNextAutoNameBareFirst(baseName, existingNames) ==
  IF baseName \notin existingNames
    THEN baseName
    ELSE AutoNameFrom(baseName, existingNames, 1)

findNextAutoNameFromZero(baseName, existingNames) ==
  AutoNameFrom(baseName, existingNames, 0)

findNextAutoName(baseName, existingNames) ==
  AutoNameFrom(baseName, existingNames, 1)

\* String.prototype.split(sep) followed by .filter(Boolean): the non-empty
\* pieces between occurrences of the one-character separator
RECURSIVE SplitNonEmpty(_, _, _)
SplitNonEmpty(s, sep, piece) ==
  IF s = <<>> THEN (IF piece = <<>> THEN <<>> ELSE <<piece>>)
  ELSE IF Head(s) = sep
    THEN (IF piece = <<>> THEN <<>> ELSE <<piece>>)
           \o SplitNonEmpty(Tail(s), sep, <<>>)
    ELSE SplitNonEmpty(Tail(s), sep, piece \o <<Head(s)>>)

\* s starts with prefix, letters compared without regard to case
StartsWithNoCase(s, prefix) ==
  Len(s) >= Len(prefix) /\ \A i \in DOMAIN prefix : ToLowerChar(s[i]) = prefix[i]

EndsWithNoCase(s, suffix) ==
  /\ Len(s) >= Len(suffix)
  /\ \A i \in DOMAIN suffix :
       ToLowerChar(s[Len(s) - Len(suffix) + i]) = suffix[i]

\* .replace(/\.git$/i, "")
StripDotGit(s) ==
  IF EndsWithNoCase(s, <<".","g","i","t">>)
    THEN SubSeq(s, 1, Len(s) - 4)
    ELSE s

HttpsPrefix == <<"h","t","t","p","s",":","/","/">>
HttpPrefix == <<"h","t","t","p",":","/","/">>

\* what follows "http://" or "https://" (only called on such strings)
AfterScheme(s) ==
  IF StartsWithNoCase(s, HttpsPrefix)
    THEN SubSeq(s, Len(HttpsPrefix) + 1, Len(s))
    ELSE SubSeq(s, Len(HttpPrefix) + 1, Len(s))

\* `new URL(s)` does not throw.  The strings of this model are either
\* http(s) URLs without credentials, port, query or fragment, or strings
\* with no scheme at all, which `new URL` rejects for want of a base.
UrlParses(s) ==
  /\ StartsWithNoCase(s, HttpsPrefix) \/ StartsWithNoCase(s, HttpPrefix)
  /\ AfterScheme(s) # <<>>
  /\ Head(AfterScheme(s)) # "/"

RECURSIVE DropUntilSlash(_)
DropUntilSlash(s) ==
  IF s = <<>> \/ Head(s) = "/" THEN s ELSE DropUntilSlash(Tail(s))

\* parsed.pathname: the part after the host, "/" when there is none
UrlPathname(s) ==
  LET rest == DropUntilSlash(AfterScheme(s))
  IN IF rest = <<>> THEN <<"/">> ELSE rest

DefaultRepository == <<"h","a","r","n","e","s","s">>

parseRepositoryName(sourceUrl) ==
  LET segments == IF UrlParses(sourceUrl)
                    THEN SplitNonEmpty(UrlPathname(sourceUrl), "/", <<>>)
                    ELSE <<>>
      pieces == SplitNonEmpty(sourceUrl, "/", <<>>)
      fallback == IF pieces = <<>> THEN DefaultRepository ELSE pieces[Len(pieces)]
  IN IF Len(segments) >= 2
       THEN StripDotGit(segments[2])
       ELSE StripDotGit(fallback)

\* isLikelyUrl of the create command: parses, with protocol http: or https:
isLikelyUrl(value) == UrlParses(value)

(***************************************************************************)
(* Path layout (state/layout.ts).                                          *)
(***************************************************************************)
Undefined == "undefined"   \* an option the caller left out

authDir == <<"auth">>
environmentsDir == <<"environments">>
manifestPath == <<"manifest.json">>
contextPath == <<"context.json">>
organizationPath == authDir \o <<"organization.json">>
credentialsPath == authDir \o <<"credentials.json">>
developmentDir == environmentsDir \o <<"development">>
developmentEnvironmentPath == developmentDir \o <<"environment.json">>
developmentProjectsDir == developmentDir \o <<"projects">>
productionDir == environmentsDir \o <<"production">>
productionEnvironmentPath == productionDir \o <<"environment.json">>
productionProjectsDir == productionDir \o <<"projects">>

getProjectDir(environment, projectId) ==
  (IF environment = "development"
     THEN developmentProjectsDir
     ELSE productionProjectsDir) \o <<projectId>>

getProjectFilePath(environment, projectId) ==
  getProjectDir(environment, projectId) \o <<"project.json">>

getInstancesDir(environment, projectId) ==
  getProjectDir(environment, projectId) \o <<"instances">>

getRunsDir(environment, projectId) ==
  getProjectDir(environment, projectId) \o <<"runs">>

(***************************************************************************)
(* The file system below the tenancy root.  An operation takes the file    *)
(* system fs = [files, dirs, err] it starts from and yields the one it     *)
(* leaves.  `err` is the error thrown so far ("" for none): once something *)
(* has thrown, the calls that follow in the same command do not happen.    *)
(***************************************************************************)
NoFiles == [p \in {} |-> ""]

FS == [files |-> files, dirs |-> dirs, err |-> ""]

\* `throw new Error(...)`, or a rejected fs promise
Throw(fs, error) == IF fs.err # "" THEN fs ELSE [fs EXCEPT !.err = error]

\* process exit code of a command: its catch block returns 1
ExitCode(fs) == IF fs.err = "" THEN 0 ELSE 1

Parent(p) == SubSeq(p, 1, Len(p) - 1)

\* the directory itself and every directory above it, up to the root
Ancestors(p) == {SubSeq(p, 1, i) : i \in 0..Len(p)}

\* access(targetPath) succeeds
pathExists(fs, targetPath) ==
  targetPath \in DOMAIN fs.files \/ targetPath \in fs.dirs

\* mkdir(dir, { recursive: true })
mkdir(fs, dir) ==
  IF fs.err # "" THEN fs ELSE [fs EXCEPT !.dirs = @ \cup Ancestors(dir)]

\* a variant of rm that removes nothing
rmNothing(fs) == fs

\* rm(homePath, { recursive: true, force: true })
rm(fs) ==
  IF fs.err # "" THEN fs ELSE [fs EXCEPT !.files = NoFiles, !.dirs = {}]

\* the regular files directly inside a directory (readdir + isFile)
readdir(fs, dir) == {p \in DOMAIN fs.files : Parent(p) = dir}

\* writeFile fails with ENOENT unless the parent directory exists: neither
\* writeJson nor writeJsonFile creates it
writeJson(fs, targetPath, value) ==
  IF fs.err # "" THEN fs
  ELSE IF Parent(targetPath) \in fs.dirs
    THEN [fs EXCEPT !.files = (targetPath :> value) @@ @]
    ELSE Throw(fs, "ENOENT")

readJson(fs, targetPath) == fs.files[targetPath]

MkdirStep(path) == [op |-> "mkdir", path |-> path]
WriteStep(path, value) == [op |-> "write", path |-> path, value |-> value]

ExecStep(fs, step) ==
  IF step.op = "mkdir"
    THEN mkdir(fs, step.path)
    ELSE writeJson(fs, step.path, step.value)

\* a straight-line run of mkdir and writeJson calls
RECURSIVE ExecSteps(_, _)
ExecSteps(fs, steps) ==
  IF steps = <<>> THEN fs
  ELSE ExecSteps(ExecStep(fs, Head(steps)), Tail(steps))

(***************************************************************************)
(* Tenancy initializer (state/init-state.ts).                              *)
(***************************************************************************)
EnvironmentNames == {"development", "production"}

\* createKeyId: "key_" and the head of the SHA-256 digest of the key, kept
\* symbolic
createKeyId(apiKey) == <<"key_", <<"sha256", apiKey>>>>

\* a variant that takes the project's name for its id and its id for its
\* name
createDefaultProjectStepsSwapped(environment, createdAt, projectId, projectName) ==
  <<MkdirStep(getProjectDir(environment, projectName)),
    MkdirStep(getInstancesDir(environment, projectName)),
    MkdirStep(getRunsDir(environment, projectName)),
    WriteStep(getProjectFilePath(environment, projectName),
              [id |-> projectName, name |-> projectId,
               environment |-> environment, createdAt |-> createdAt,
               updatedAt |-> createdAt, runtimeCount |-> 0])>>

\* the file system calls of createDefaultProject, in order
createDefaultProjectSteps(environment, createdAt, projectId, projectName) ==
  <<MkdirStep(getProjectDir(environment, projectId)),
    MkdirStep(getInstancesDir(environment, projectId)),
    MkdirStep(getRunsDir(environment, projectId)),
    WriteStep(getProjectFilePath(environment, projectId),
              [id |-> projectId, name |-> projectName,
               environment |-> environment, createdAt |-> createdAt,
               updatedAt |-> createdAt, runtimeCount |-> 0])>>

createDefaultProject(fs, environment, createdAt, projectId, projectName) ==
  ExecSteps(fs, createDefaultProjectSteps(environment, createdAt,
                                          projectId, projectName))

\* everything initializeState does after the manifest check, in order;
\* organizationId and apiKey are the random values it draws
initializeSteps(orgName, createdAt, organizationId, apiKey) ==
  <<MkdirStep(authDir),
    MkdirStep(developmentProjectsDir),
    MkdirStep(productionProjectsDir),
    WriteStep(manifestPath,
              [schemaVersion |-> 1, initializedAt |-> createdAt,
               organizationId |-> organizationId]),
    WriteStep(organizationPath,
              [id |-> organizationId, name |-> orgName,
               keyId |-> createKeyId(apiKey), createdAt |-> createdAt]),
    WriteStep(developmentEnvironmentPath,
              [name |-> "development", createdAt |-> createdAt,
               defaultTarget |-> "docker",
               projectsDirectory |-> developmentProjectsDir,
               defaultProjectId |-> "prj_default",
               resourcePolicy |-> [maxCpuPercent |-> 80, maxMemoryPercent |-> 80],
               machineProfile |-> [capturedAt |-> createdAt]]),
    WriteStep(productionEnvironmentPath,
              [name |-> "production", createdAt |-> createdAt,
               defaultTarget |-> "docker",
               projectsDirectory |-> productionProjectsDir,
               defaultProjectId |-> "prj_default",
               resourcePolicy |-> [maxCpuPercent |-> 90, maxMemoryPercent |-> 90]]),
    WriteStep(credentialsPath, [apiKey |-> apiKey, createdAt |-> createdAt])>>
  \o createDefaultProjectSteps("development", createdAt, "prj_default", "default")
  \o createDefaultProjectSteps("production", createdAt, "prj_default", "default")
  \o <<WriteStep(contextPath,
                 [environment |-> "production", projectId |-> "prj_default",
                  updatedAt |-> createdAt]),
       WriteStep(developmentProjectsDir \o <<".gitkeep">>, ""),
       WriteStep(productionProjectsDir \o <<".gitkeep">>, "")>>

\* a variant that clears the root before it looks at `force`
initializeStateRemovingFirst(fs, input, createdAt, organizationId, apiKey) ==
  IF pathExists(fs, manifestPath) /\ ~input.force
    THEN [fs |-> Throw(rm(fs), "AlreadyInitialized"), overwritten |-> FALSE]
    ELSE [fs |-> ExecSteps(rm(fs),
                           initializeSteps(input.orgName, createdAt,
                                           organizationId, apiKey)),
          overwritten |-> pathExists(fs, manifestPath)]

initializeState(fs, input, createdAt, organizationId, apiKey) ==
  LET alreadyInitialized == pathExists(fs, manifestPath)
  IN IF alreadyInitialized /\ ~input.force
       THEN [fs |-> Throw(fs, "AlreadyInitialized"), overwritten |-> FALSE]
       ELSE [fs |-> ExecSteps(IF alreadyInitialized /\ input.force
                                THEN rm(fs) ELSE fs,
                              initializeSteps(input.orgName, createdAt,
                                              organizationId, apiKey)),
             overwritten |-> alreadyInitialized]

(***************************************************************************)
(* Scope resolver (state/project-registry.ts).                             *)
(***************************************************************************)
NoScope == [environment |-> Undefined, projectId |-> Undefined]

\* a variant in which the persisted value wins over the override
CoalesceFallbackFirst(override, fallback) ==
  IF fallback # Undefined THEN fallback ELSE override

\* `override ?? fallback`
Coalesce(override, fallback) ==
  IF override # Undefined THEN override ELSE fallback

\* a variant that looks for the context file first
StateRootErrorContextFirst(fs) ==
  IF ~pathExists(fs, contextPath) THEN "ContextMissing"
  ELSE IF ~pathExists(fs, manifestPath) THEN "NotInitialized"
  ELSE ""

\* the two checks resolveProjectScope starts with: the error it throws, or ""
StateRootError(fs) ==
  IF ~pathExists(fs, manifestPath) THEN "NotInitialized"
  ELSE IF ~pathExists(fs, contextPath) THEN "ContextMissing"
  ELSE ""

\* a variant that makes the instances and runs directories before it
\* looks for the project record
resolveProjectScopeMkdirFirst(fs, input) ==
  IF StateRootError(fs) # ""
    THEN [fs |-> Throw(fs, StateRootError(fs)), scope |-> NoScope]
  ELSE
    LET context == readJson(fs, contextPath)
        environment == Coalesce(input.environment, context.environment)
        projectId == Coalesce(input.projectId, context.projectId)
        made == mkdir(mkdir(fs, getInstancesDir(environment, projectId)),
                      getRunsDir(environment, projectId))
    IN IF ~pathExists(fs, getProjectFilePath(environment, projectId))
         THEN [fs |-> Throw(made, "ProjectNotFound"), scope |-> NoScope]
         ELSE [fs |-> made,
               scope |-> [context |-> context,
                          environment |-> environment,
                          projectId |-> projectId,
                          project |-> readJson(fs, getProjectFilePath(environment,
                                                                     projectId)),
                          instancesDir |-> getInstancesDir(environment, projectId),
                          runsDir |-> getRunsDir(environment, projectId)]]

resolveProjectScope(fs, input) ==
  IF StateRootError(fs) # ""
    THEN [fs |-> Throw(fs, StateRootError(fs)), scope |-> NoScope]
  ELSE
    LET context == readJson(fs, contextPath)
        environment == Coalesce(input.environment, context.environment)
        projectId == Coalesce(input.projectId, context.projectId)
    IN IF ~pathExists(fs, getProjectFilePath(environment, projectId))
         THEN [fs |-> Throw(fs, "ProjectNotFound"), scope |-> NoScope]
         ELSE [fs |-> mkdir(mkdir(fs, getInstancesDir(environment, projectId)),
                            getRunsDir(environment, projectId)),
               scope |-> [context |-> context,
                          environment |-> environment,
                          projectId |-> projectId,
                          project |-> readJson(fs, getProjectFilePath(environment,
                                                                     projectId)),
                          instancesDir |-> getInstancesDir(environment, projectId),
                          runsDir |-> getRunsDir(environment, projectId)]]

\* the records of the project directories of an environment that hold a
\* project.json
listProjectRecords(fs, environment) ==
  {readJson(fs, d \o <<"project.json">>) :
     d \in {q \in fs.dirs :
              /\ Parent(q) = Parent(getProjectDir(environment, "prj_default"))
              /\ pathExists(fs, q \o <<"project.json">>)}}

\* every run record file below the root, whatever its scope
AllRunFiles(fs) ==
  {p \in DOMAIN fs.files : Len(p) = 6 /\ p[5] = "runs"}

\* the environment and project a command reports
ScopeOf(scope) ==
  [environment |-> scope.environment, projectId |-> scope.projectId]

(***************************************************************************)
(* Instance registry (state/project-registry.ts).                          *)
(***************************************************************************)
NoName == <<>>   \* a name that is undefined or "": the code tests `input.name ?`

\* the { filePath, record } entries of an instances directory; the order
\* of the listing plays no part in what follows
\* a variant that lists the instance files of every scope
listRuntimeInstancesEverywhere(fs, instancesDir) ==
  {[filePath |-> p, record |-> readJson(fs, p)] :
     p \in {q \in DOMAIN fs.files : Len(q) = 6 /\ q[5] = "instances"}}

listRuntimeInstances(fs, instancesDir) ==
  {[filePath |-> p, record |-> readJson(fs, p)] : p \in readdir(fs, instancesDir)}

\* every instance file below the root, whatever its scope
AllInstanceFiles(fs) ==
  {p \in DOMAIN fs.files : Len(p) = 6 /\ p[5] = "instances"}

RuntimeId(n) == "rtm_" \o ToString(n)

\* `rtm_${randomUUID()...}`: an id no instance file carries
FreshRuntimeId(fs) ==
  LET used == {readJson(fs, p).id : p \in AllInstanceFiles(fs)}
  IN RuntimeId(CHOOSE n \in 1..(Cardinality(used) + 1) :
                 /\ RuntimeId(n) \notin used
                 /\ \A m \in 1..(n - 1) : RuntimeId(m) \in used)

\* a variant that bumps updatedAt and keeps the count it was handed
updateProjectKeepingCount(fs, scope, now) ==
  writeJson(fs, getProjectFilePath(scope.environment, scope.projectId),
            [scope.project EXCEPT !.updatedAt = now])

\* a variant that counts the directory as it is when the project is written
writeProjectRuntimeCountRelisting(fs, scope, entries, now) ==
  writeJson(fs, getProjectFilePath(scope.environment, scope.projectId),
            [scope.project EXCEPT
               !.runtimeCount =
                  Cardinality(listRuntimeInstances(fs, scope.instancesDir)),
               !.updatedAt = now])

\* the write that ends updateProjectRuntimeCount, given the entries listed
writeProjectRuntimeCount(fs, scope, entries, now) ==
  writeJson(fs, getProjectFilePath(scope.environment, scope.projectId),
            [scope.project EXCEPT !.runtimeCount = Cardinality(entries),
                                  !.updatedAt = now])

updateProjectRuntimeCount(fs, scope, now) ==
  writeProjectRuntimeCount(fs, scope,
                           listRuntimeInstances(fs, scope.instancesDir), now)

NoRecord == [id |-> Undefined]

\* a variant without the check of an explicit name against the taken ones
chooseRuntimeNameUnchecked(existingNames, input, derivedRepository) ==
  LET baseName == IF input.name # NoName
                    THEN sanitizeName(input.name)
                    ELSE sanitizeName(derivedRepository)
  IN IF baseName = <<>>
       THEN [err |-> "InvalidName", name |-> <<>>]
     ELSE IF input.name = NoName
       THEN [err |-> "", name |-> findNextAutoName(baseName, existingNames)]
     ELSE [err |-> "", name |-> baseName]

\* a variant that falls back on the repository when the explicit name
\* sanitizes to nothing
chooseRuntimeNameFallingBack(existingNames, input, derivedRepository) ==
  LET baseName == IF input.name # NoName /\ sanitizeName(input.name) # <<>>
                    THEN sanitizeName(input.name)
                    ELSE sanitizeName(derivedRepository)
  IN IF baseName = <<>>
       THEN [err |-> "InvalidName", name |-> <<>>]
     ELSE IF input.name = NoName
       THEN [err |-> "", name |-> findNextAutoName(baseName, existingNames)]
     ELSE IF baseName \in existingNames
       THEN [err |-> "DuplicateName", name |-> <<>>]
     ELSE [err |-> "", name |-> baseName]

\* a variant that suffixes an explicit name like a derived one
chooseRuntimeNameSuffixingAll(existingNames, input, derivedRepository) ==
  LET baseName == IF input.name # NoName
                    THEN sanitizeName(input.name)
                    ELSE sanitizeName(derivedRepository)
  IN IF baseName = <<>>
       THEN [err |-> "InvalidName", name |-> <<>>]
     ELSE IF input.name = NoName \/ baseName \notin existingNames
       THEN [err |-> "", name |-> findNextAutoName(baseName, existingNames)]
     ELSE [err |-> "DuplicateName", name |-> <<>>]

\* the name createRuntimeInstance settles on, or the error it throws
\* before it writes anything
chooseRuntimeName(existingNames, input, derivedRepository) ==
  LET baseName == IF input.name # NoName
                    THEN sanitizeName(input.name)
                    ELSE sanitizeName(derivedRepository)
  IN IF baseName = <<>>
       THEN [err |-> "InvalidName", name |-> <<>>]
     ELSE IF input.name = NoName
       THEN [err |-> "", name |-> findNextAutoName(baseName, existingNames)]
     ELSE IF baseName \in existingNames
       THEN [err |-> "DuplicateName", name |-> <<>>]
     ELSE [err |-> "", name |-> baseName]

\* the record createRuntimeInstance builds once the name is settled
runtimeRecord(scope, input, now, id, derivedRepository, name) ==
  [id |-> id,
   name |-> name,
   environment |-> scope.environment,
   projectId |-> scope.projectId,
   target |-> input.target,
   source |-> [type |-> "github", url |-> input.sourceUrl,
               repository |-> derivedRepository],
   status |-> "created",
   running |-> FALSE,
   createdAt |-> now,
   updatedAt |-> now,
   runCount |-> 0]

\* createRuntimeInstance from the settled name up to the write of the
\* instance file
writeRuntimeInstance(fs, scope, input, now, id, derivedRepository, chosen) ==
  IF chosen.err # ""
    THEN [fs |-> Throw(fs, chosen.err), record |-> NoRecord]
    ELSE [fs |-> writeJson(fs, scope.instancesDir \o <<id>>,
                   runtimeRecord(scope, input, now, id, derivedRepository,
                                 chosen.name)),
          record |-> runtimeRecord(scope, input, now, id, derivedRepository,
                                   chosen.name)]

\* a variant of Recount that leaves the project record alone
RecountNothing(one, scope, now) == one

\* the last statement before the return: the recount of the project
Recount(one, scope, now) ==
  [one EXCEPT !.fs = updateProjectRuntimeCount(@, scope, now)]

\* the second half of createRuntimeInstance: the record, its file and the
\* recount of the project, once the name is settled
persistRuntimeInstance(fs, scope, input, now, id, derivedRepository, chosen) ==
  Recount(writeRuntimeInstance(fs, scope, input, now, id, derivedRepository,
                               chosen),
          scope, now)

\* createRuntimeInstance when the process dies between the write of the
\* instance file and the recount
createRuntimeInstanceCut(fs, scope, input, now, id) ==
  IF scope.instancesDir \notin fs.dirs
    THEN [fs |-> Throw(fs, "ENOENT"), record |-> NoRecord]
    ELSE writeRuntimeInstance(fs, scope, input, now, id,
           parseRepositoryName(input.sourceUrl),
           chooseRuntimeName(
             {item.record.name :
                item \in listRuntimeInstances(fs, scope.instancesDir)},
             input, parseRepositoryName(input.sourceUrl)))

createRuntimeInstance(fs, scope, input, now, id) ==
  IF scope.instancesDir \notin fs.dirs
    THEN [fs |-> Throw(fs, "ENOENT"), record |-> NoRecord]
    ELSE persistRuntimeInstance(fs, scope, input, now, id,
           parseRepositoryName(input.sourceUrl),
           chooseRuntimeName(
             {item.record.name :
                item \in listRuntimeInstances(fs, scope.instancesDir)},
             input, parseRepositoryName(input.sourceUrl)))

\* the candidates `all.find(item => item.record.name === name)` may return
findRuntimeByName(fs, scope, name) ==
  {item \in listRuntimeInstances(fs, scope.instancesDir) : item.record.name = name}

saveRuntimeRecord(fs, filePath, record) == writeJson(fs, filePath, record)

(***************************************************************************)
(* create command (commands/create.ts).                                    *)
(***************************************************************************)
AllButLast(s) == SubSeq(s, 1, Len(s) - 1)

parseCreateInputs(inputs, explicitNameFromOption) ==
  IF inputs = <<>>
    THEN [err |-> "", harnessSources |-> <<>>, explicitName |-> explicitNameFromOption]
  ELSE IF explicitNameFromOption # NoName
    THEN [err |-> "", harnessSources |-> inputs, explicitName |-> explicitNameFromOption]
  ELSE IF /\ Len(inputs) >= 2
          /\ \A i \in 1..(Len(inputs) - 1) : isLikelyUrl(inputs[i])
          /\ ~isLikelyUrl(inputs[Len(inputs)])
    THEN IF Len(inputs) = 2
           THEN [err |-> "", harnessSources |-> AllButLast(inputs),
                 explicitName |-> inputs[Len(inputs)]]
           ELSE [err |-> "AmbiguousInput", harnessSources |-> <<>>,
                 explicitName |-> NoName]
  ELSE [err |-> "", harnessSources |-> inputs, explicitName |-> NoName]

\* created.push(instance), which a throwing createRuntimeInstance skips
PushCreated(acc, one) ==
  [acc EXCEPT !.fs = one.fs,
              !.created = IF one.fs.err = "" THEN Append(@, one.record) ELSE @]

\* the for loop of createCommand from `index` on; every call reads the
\* clock and draws a fresh id, and the scope is the one resolved up front
RECURSIVE CreateEach(_, _, _, _, _, _, _)
CreateEach(acc, scope, harnessSources, explicitName, target, index, now) ==
  IF index > Len(harnessSources) \/ acc.fs.err # ""
    THEN acc
    ELSE CreateEach(
           PushCreated(acc,
             createRuntimeInstance(acc.fs, scope,
               [sourceUrl |-> harnessSources[index],
                name |-> IF index = 1 THEN explicitName ELSE NoName,
                target |-> target],
               now, FreshRuntimeId(acc.fs))),
           scope, harnessSources, explicitName, target, index + 1, now)

\* what a command that stops before it has a scope reports
Failed(fs, error) ==
  [fs |-> Throw(fs, error), scope |-> NoScope, created |-> <<>>]

\* a variant that puts back the files of the start when a source fails
createCommandRollingBack(fs, createInputs, options, now) ==
  LET parsed == parseCreateInputs(createInputs, options.name)
      resolved == resolveProjectScope(fs, [environment |-> options.env,
                                           projectId |-> options.project])
      whole == CreateEach([fs |-> resolved.fs, scope |-> ScopeOf(resolved.scope),
                           created |-> <<>>],
                          resolved.scope, parsed.harnessSources,
                          parsed.explicitName,
                          IF Len(parsed.harnessSources) > 1
                            THEN "swarm" ELSE "docker",
                          1, now)
  IN IF parsed.err # ""
       THEN Failed(fs, parsed.err)
     ELSE IF parsed.harnessSources = <<>>
       THEN Failed(fs, "NoSource")
     ELSE IF parsed.explicitName # NoName /\ Len(parsed.harnessSources) > 1
       THEN Failed(fs, "NameWithSeveralSources")
     ELSE IF resolved.fs.err # ""
       THEN Failed(resolved.fs, "")
     ELSE IF whole.fs.err # ""
       THEN [fs |-> Throw(resolved.fs, whole.fs.err), scope |-> whole.scope,
             created |-> <<>>]
     ELSE whole

createCommand(fs, createInputs, options, now) ==
  LET parsed == parseCreateInputs(createInputs, options.name)
      resolved == resolveProjectScope(fs, [environment |-> options.env,
                                           projectId |-> options.project])
  IN IF parsed.err # ""
       THEN Failed(fs, parsed.err)
     ELSE IF parsed.harnessSources = <<>>
       THEN Failed(fs, "NoSource")
     ELSE IF parsed.explicitName # NoName /\ Len(parsed.harnessSources) > 1
       THEN Failed(fs, "NameWithSeveralSources")
     ELSE IF resolved.fs.err # ""
       THEN Failed(resolved.fs, "")
     ELSE CreateEach([fs |-> resolved.fs, scope |-> ScopeOf(resolved.scope),
                      created |-> <<>>],
                     resolved.scope, parsed.harnessSources, parsed.explicitName,
                     IF Len(parsed.harnessSources) > 1 THEN "swarm" ELSE "docker",
                     1, now)

\* createCommand when the process dies in the createRuntimeInstance of its
\* first source, between the write of the instance file and the recount
createCommandCut(fs, createInputs, options, now) ==
  LET parsed == parseCreateInputs(createInputs, options.name)
      resolved == resolveProjectScope(fs, [environment |-> options.env,
                                           projectId |-> options.project])
  IN IF parsed.err # ""
       THEN Failed(fs, parsed.err)
     ELSE IF parsed.harnessSources = <<>>
       THEN Failed(fs, "NoSource")
     ELSE IF parsed.explicitName # NoName /\ Len(parsed.harnessSources) > 1
       THEN Failed(fs, "NameWithSeveralSources")
     ELSE IF resolved.fs.err # ""
       THEN Failed(resolved.fs, "")
     ELSE PushCreated([fs |-> resolved.fs, scope |-> ScopeOf(resolved.scope),
                       created |-> <<>>],
            createRuntimeInstanceCut(resolved.fs, resolved.scope,
              [sourceUrl |-> parsed.harnessSources[1],
               name |-> parsed.explicitName,
               target |-> IF Len(parsed.harnessSources) > 1
                            THEN "swarm" ELSE "docker"],
              now, FreshRuntimeId(resolved.fs)))

(***************************************************************************)
(* run command (commands/run.ts).  The set of outcomes the command may     *)
(* have: one for each record `findRuntimeByName` may return.               *)
(***************************************************************************)
\* variants of startedRecord: runCount set to 1 instead of counted up;
\* createdAt stamped along with updatedAt
startedRecordCountingOnce(record, now) ==
  [f \in DOMAIN record \cup {"lastRunAt"} |->
     CASE f = "status" -> "running"
       [] f = "running" -> TRUE
       [] f = "runCount" -> 1
       [] f = "lastRunAt" -> now
       [] f = "updatedAt" -> now
       [] OTHER -> record[f]]

startedRecordStampingAll(record, now) ==
  [f \in DOMAIN record \cup {"lastRunAt"} |->
     CASE f = "status" -> "running"
       [] f = "running" -> TRUE
       [] f = "runCount" -> record.runCount + 1
       [] f \in {"lastRunAt", "updatedAt", "createdAt"} -> now
       [] OTHER -> record[f]]

\* a variant that marks the status and forgets the running flag
startedRecordNotRunning(record, now) ==
  [f \in DOMAIN record \cup {"lastRunAt"} |->
     CASE f = "status" -> "running"
       [] f = "running" -> FALSE
       [] f = "runCount" -> record.runCount + 1
       [] f = "lastRunAt" -> now
       [] f = "updatedAt" -> now
       [] OTHER -> record[f]]

\* the record a run that is not dry saves
startedRecord(record, now) ==
  [f \in DOMAIN record \cup {"lastRunAt"} |->
     CASE f = "status" -> "running"
       [] f = "running" -> TRUE
       [] f = "runCount" -> record.runCount + 1
       [] f = "lastRunAt" -> now
       [] f = "updatedAt" -> now
       [] OTHER -> record[f]]

\* a variant that saves the record whether the run is dry or not
runCommandAlwaysSaving(fs, options, now) ==
  LET resolved == resolveProjectScope(fs, [environment |-> options.env,
                                           projectId |-> options.project])
      found == findRuntimeByName(resolved.fs, resolved.scope, options.name)
  IN IF resolved.fs.err # ""
       THEN {[fs |-> resolved.fs, scope |-> NoScope, filePath |-> <<>>]}
     ELSE IF found = {}
       THEN {[fs |-> Throw(resolved.fs, "InstanceNotFound"),
              scope |-> ScopeOf(resolved.scope), filePath |-> <<>>]}
     ELSE {[fs |-> saveRuntimeRecord(resolved.fs, runtime.filePath,
                                     startedRecord(runtime.record, now)),
            scope |-> ScopeOf(resolved.scope),
            filePath |-> runtime.filePath] : runtime \in found}

runCommand(fs, options, now) ==
  LET resolved == resolveProjectScope(fs, [environment |-> options.env,
                                           projectId |-> options.project])
      found == findRuntimeByName(resolved.fs, resolved.scope, options.name)
  IN IF resolved.fs.err # ""
       THEN {[fs |-> resolved.fs, scope |-> NoScope, filePath |-> <<>>]}
     ELSE IF found = {}
       THEN {[fs |-> Throw(resolved.fs, "InstanceNotFound"),
              scope |-> ScopeOf(resolved.scope), filePath |-> <<>>]}
     ELSE {[fs |-> IF options.dryRun
                     THEN resolved.fs
                     ELSE saveRuntimeRecord(resolved.fs, runtime.filePath,
                                            startedRecord(runtime.record, now)),
            scope |-> ScopeOf(resolved.scope),
            filePath |-> runtime.filePath] : runtime \in found}

(***************************************************************************)
(* context and listing commands (commands/resources.ts).                   *)
(***************************************************************************)
\* getProjectRecord(...) is not undefined
ProjectExists(fs, environment, projectId) ==
  pathExists(fs, getProjectFilePath(environment, projectId))

\* a variant that stamps the manifest along with the context
writeCurrentContextAndManifest(fs, context) ==
  writeJson(writeJson(fs, contextPath, context), manifestPath,
            [schemaVersion |-> 1, initializedAt |-> context.updatedAt,
             organizationId |-> "org_1"])

writeCurrentContext(fs, context) == writeJson(fs, contextPath, context)

\* a variant that does not look for the project record
contextSetCommandUnchecked(fs, options, now) ==
  writeCurrentContext(fs, [environment |-> options.env,
                           projectId |-> options.project,
                           updatedAt |-> now])

\* a variant that wants a manifest and a context before anything else
contextSetCommandOnSoundRoot(fs, options, now) ==
  IF StateRootError(fs) # ""
    THEN Throw(fs, StateRootError(fs))
  ELSE IF ~ProjectExists(fs, options.env, options.project)
    THEN Throw(fs, "ProjectNotFound")
  ELSE writeCurrentContext(fs, [environment |-> options.env,
                                projectId |-> options.project,
                                updatedAt |-> now])

contextSetCommand(fs, options, now) ==
  IF ~ProjectExists(fs, options.env, options.project)
    THEN Throw(fs, "ProjectNotFound")
    ELSE writeCurrentContext(fs, [environment |-> options.env,
                                  projectId |-> options.project,
                                  updatedAt |-> now])

\* a variant that takes production when no environment is given
projectUseCommandDefaultingToProduction(fs, projectId, options, now) ==
  IF contextPath \notin DOMAIN fs.files
    THEN Throw(fs, "ENOENT")
  ELSE IF ~ProjectExists(fs, Coalesce(options.env, "production"), projectId)
    THEN Throw(fs, "ProjectNotFound")
  ELSE writeCurrentContext(fs,
         [environment |-> Coalesce(options.env, "production"),
          projectId |-> projectId,
          updatedAt |-> now])

projectUseCommand(fs, projectId, options, now) ==
  IF contextPath \notin DOMAIN fs.files
    THEN Throw(fs, "ENOENT")
  ELSE IF ~ProjectExists(fs, Coalesce(options.env,
                                      readJson(fs, contextPath).environment),
                         projectId)
    THEN Throw(fs, "ProjectNotFound")
  ELSE writeCurrentContext(fs,
         [environment |-> Coalesce(options.env,
                                   readJson(fs, contextPath).environment),
          projectId |-> projectId,
          updatedAt |-> now])

instanceListCommand(fs, options) ==
  LET resolved == resolveProjectScope(fs, [environment |-> options.env,
                                           projectId |-> options.project])
  IN IF resolved.fs.err # ""
       THEN [fs |-> resolved.fs, scope |-> NoScope, instances |-> {}]
       ELSE [fs |-> resolved.fs,
             scope |-> ScopeOf(resolved.scope),
             instances |-> {item.record :
                              item \in listRuntimeInstances(resolved.fs,
                                         resolved.scope.instancesDir)}]

(***************************************************************************)
(* init command (commands/init.ts).                                        *)
(***************************************************************************)
Username == <<"o","p">>   \* os.userInfo().username of the operator

\* (options.org?.trim() || os.userInfo().username).trim()
orgNameOf(org) == Trim(IF Trim(org) # <<>> THEN Trim(org) ELSE Username)

initCommand(fs, options, now, organizationId, apiKey) ==
  initializeState(fs, [orgName |-> orgNameOf(options.org),
                       force |-> options.force],
                  now, organizationId, apiKey)

(***************************************************************************)
(* What the operator may type.                                             *)
(***************************************************************************)
Acme == <<"a","c","m","e">>
MyHarness == <<"m","y","-","h","a","r","n","e","s","s">>
GitHubAcme ==
  HttpsPrefix \o <<"g","i","t","h","u","b",".","c","o","m","/">> \o Acme \o <<"/">>

\* https://github.com/acme/my-harness
HarnessUrl == GitHubAcme \o MyHarness
\* https://github.com/acme/My_Tool.git
ToolUrl == GitHubAcme \o <<"M","y","_","T","o","o","l",".","g","i","t">>
\* https://github.com/_ : one path segment, and nothing a name can keep
BlankUrl == HttpsPrefix \o <<"g","i","t","h","u","b",".","c","o","m","/","_">>

OrgOptions == {<<" ">> \o Acme}
OrganizationIds == {"org_1"}
ApiKeys == {"acs_sk_1"}
EnvOptions == {Undefined} \cup EnvironmentNames
ProjectOptions == {Undefined, "prj_default", "prj_other"}

\* the --env/--project pairs given to create and run
ScopeOptions ==
  {[env |-> Undefined, project |-> Undefined],
   [env |-> "development", project |-> Undefined],
   [env |-> Undefined, project |-> "prj_other"]}

\* "My Harness-2", which sanitizes to my-harness-2
SpacedName == <<"M","y"," ","H","a","r","n","e","s","s","-","2">>

\* the positional arguments and --name given to create
CreateArgs ==
  {[inputs |-> <<HarnessUrl>>, name |-> NoName],
   [inputs |-> <<HarnessUrl>>, name |-> SpacedName],
   [inputs |-> <<HarnessUrl>>, name |-> MyHarness],
   [inputs |-> <<HarnessUrl>>, name |-> <<"_","_">>],
   [inputs |-> <<BlankUrl>>, name |-> NoName],
   [inputs |-> <<HarnessUrl, BlankUrl>>, name |-> NoName]}

RunNames == {MyHarness, MyHarness \o <<"-","1">>}

(***************************************************************************)
(* The state machine: one command at a time, each run to completion.       *)
(* `last` keeps what the command reported, not what was typed.             *)
(***************************************************************************)
\* the create processes of the interleaved runs
Pids == 1..MaxCreators

NoInput == [sourceUrl |-> <<>>, name |-> NoName, target |-> "docker"]

\* a process that has not started; `existing` and `entries` are the two
\* listings createRuntimeInstance and updateProjectRuntimeCount await,
\* `filePath` and `record` the runtime findRuntimeByName gave to a run
IdleProc ==
  [phase |-> "idle", scope |-> NoScope, input |-> NoInput, existing |-> {},
   record |-> NoRecord, entries |-> {}, filePath |-> <<>>, err |-> ""]

Init ==
  /\ files = NoFiles
  /\ dirs = {}
  /\ clock = 0
  /\ last = [op |-> "none"]
  /\ procs = [pid \in Pids |-> IdleProc]

\* the command leaves the file system fs behind and reports `report`
Leave(fs, report) ==
  /\ files' = fs.files
  /\ dirs' = fs.dirs
  /\ last' = report
  /\ UNCHANGED <<clock, procs>>

\* time passes between two readings of the clock
Tick ==
  /\ clock < MaxClock
  /\ clock' = clock + 1
  /\ last' = [op |-> "tick"]
  /\ UNCHANGED <<files, dirs, procs>>

InitDone(out, force) ==
  Leave(out.fs, [op |-> "init", exit |-> ExitCode(out.fs), err |-> out.fs.err,
                 force |-> force, overwritten |-> out.overwritten])

InitCmd ==
  \E org \in OrgOptions, force \in BOOLEAN,
     organizationId \in OrganizationIds, apiKey \in ApiKeys :
    InitDone(initCommand(FS, [org |-> org, force |-> force], clock,
                         organizationId, apiKey),
             force)

CreateDone(out, explicit) ==
  Leave(out.fs, [op |-> "create", exit |-> ExitCode(out.fs), err |-> out.fs.err,
                 explicit |-> explicit,
                 created |-> [i \in DOMAIN out.created |-> out.created[i].name]])

CreateCmd ==
  \E args \in CreateArgs, at \in ScopeOptions :
    /\ Cardinality(AllInstanceFiles(FS)) + Len(args.inputs) <= MaxInstances
    /\ CreateDone(createCommand(FS, args.inputs,
                                [name |-> args.name, env |-> at.env,
                                 project |-> at.project],
                                clock),
                  args.name # NoName)

RunCmd ==
  \E name \in RunNames, dryRun \in BOOLEAN, at \in ScopeOptions :
    \E out \in runCommand(FS, [name |-> name, dryRun |-> dryRun,
                               env |-> at.env, project |-> at.project],
                          clock) :
      /\ \A p \in AllInstanceFiles(out.fs) :
           readJson(out.fs, p).runCount <= MaxRunCount
      /\ Leave(out.fs, [op |-> "run", exit |-> ExitCode(out.fs),
                        err |-> out.fs.err, dryRun |-> dryRun])

ContextDone(fs, op) ==
  Leave(fs, [op |-> op, exit |-> ExitCode(fs), err |-> fs.err])

ContextSetCmd ==
  \E env \in EnvironmentNames, project \in ProjectOptions \ {Undefined} :
    ContextDone(contextSetCommand(FS, [env |-> env, project |-> project], clock),
                "contextSet")

ProjectUseCmd ==
  \E projectId \in ProjectOptions \ {Undefined}, env \in EnvOptions :
    ContextDone(projectUseCommand(FS, projectId, [env |-> env], clock),
                "projectUse")

InstanceListDone(out) ==
  Leave(out.fs, [op |-> "instanceList", exit |-> ExitCode(out.fs),
                 err |-> out.fs.err, scope |-> out.scope])

InstanceListCmd ==
  \E env \in EnvOptions, project \in ProjectOptions :
    InstanceListDone(instanceListCommand(FS, [env |-> env, project |-> project]))

Next ==
  \/ Tick
  \/ InitCmd
  \/ CreateCmd
  \/ RunCmd
  \/ ContextSetCmd
  \/ ProjectUseCmd
  \/ InstanceListCmd

Spec == Init /\ [][Next]_vars

(***************************************************************************)
(* The same commands, where the process running init may also die between  *)
(* two of its file system calls.                                           *)
(***************************************************************************)
\* how many steps of initializeSteps are done when the process dies: after
\* the second mkdir, and after the manifest is written
CrashPoints == {2, 4}

\* the process running init dies when `done` of its steps are done, for a
\* `done` among `points`
InitCrashAt(points) ==
  \E org \in OrgOptions, force \in BOOLEAN, organizationId \in OrganizationIds,
     apiKey \in ApiKeys, done \in points :
    /\ pathExists(FS, manifestPath) => force
    /\ Leave(ExecSteps(IF pathExists(FS, manifestPath) THEN rm(FS) ELSE FS,
                       SubSeq(initializeSteps(orgNameOf(org), clock,
                                              organizationId, apiKey),
                              1, done)),
             [op |-> "init", exit |-> 1, err |-> "Crash", force |-> force,
              overwritten |-> pathExists(FS, manifestPath)])

InitCrash == InitCrashAt(CrashPoints)

NextCrash == Next \/ InitCrash

SpecCrash == Init /\ [][NextCrash]_vars

(***************************************************************************)
(* init, create, context set, project use and list, where the process      *)
(* running init may die anywhere between the write of the manifest and the *)
(* write of the context.                                                   *)
(***************************************************************************)
\* the steps of initializeSteps from the manifest to the last one before
\* the context
ManifestStep == 4
ContextStep == 17

InitCrashBeforeContext == InitCrashAt(ManifestStep..(ContextStep - 1))

NextInitCrash ==
  \/ Tick
  \/ InitCmd
  \/ InitCrashBeforeContext
  \/ CreateCmd
  \/ ContextSetCmd
  \/ ProjectUseCmd
  \/ InstanceListCmd

SpecInitCrash == Init /\ [][NextInitCrash]_vars

(***************************************************************************)
(* init, create, context set and list, where the process running create    *)
(* may also die between the write of the instance file and the recount.    *)
(***************************************************************************)
\* the process running create dies after it wrote the instance file: the
\* command is one that got as far as that write
CreateCrashDone(out, explicit) ==
  /\ out.fs.err = ""
  /\ Leave(out.fs, [op |-> "create", exit |-> 1, err |-> "Crash",
                    explicit |-> explicit, created |-> <<>>])

CreateCrash ==
  \E args \in CreateArgs, at \in ScopeOptions :
    /\ Cardinality(AllInstanceFiles(FS)) + Len(args.inputs) <= MaxInstances
    /\ CreateCrashDone(createCommandCut(FS, args.inputs,
                                        [name |-> args.name, env |-> at.env,
                                         project |-> at.project],
                                        clock),
                       args.name # NoName)

NextCreateCrash ==
  \/ Tick
  \/ InitCmd
  \/ CreateCmd
  \/ CreateCrash
  \/ ContextSetCmd
  \/ InstanceListCmd

SpecCreateCrash == Init /\ [][NextCreateCrash]_vars

(***************************************************************************)
(* create as the steps it awaits, for processes that run interleaved on    *)
(* one tenancy root with no lock: resolve the scope, list the existing     *)
(* instances, write the instance file, list again for the count, write the *)
(* project record.  Each command has one source.                           *)
(***************************************************************************)
\* createCommand up to the call of createRuntimeInstance
createCommandResolve(fs, createInputs, options) ==
  LET parsed == parseCreateInputs(createInputs, options.name)
      resolved == resolveProjectScope(fs, [environment |-> options.env,
                                           projectId |-> options.project])
  IN IF parsed.err # ""
       THEN [fs |-> Throw(fs, parsed.err), scope |-> NoScope, input |-> NoInput]
     ELSE IF parsed.harnessSources = <<>>
       THEN [fs |-> Throw(fs, "NoSource"), scope |-> NoScope, input |-> NoInput]
     ELSE IF parsed.explicitName # NoName /\ Len(parsed.harnessSources) > 1
       THEN [fs |-> Throw(fs, "NameWithSeveralSources"), scope |-> NoScope,
             input |-> NoInput]
     ELSE IF resolved.fs.err # ""
       THEN [fs |-> resolved.fs, scope |-> NoScope, input |-> NoInput]
     ELSE [fs |-> resolved.fs,
           scope |-> resolved.scope,
           input |-> [sourceUrl |-> parsed.harnessSources[1],
                      name |-> parsed.explicitName,
                      target |-> IF Len(parsed.harnessSources) > 1
                                   THEN "swarm" ELSE "docker"]]

\* a variant that lists the directory again when the name is chosen
chooseFromDirectory(fs, proc) ==
  chooseRuntimeName(
    {item.record.name : item \in listRuntimeInstances(fs, proc.scope.instancesDir)},
    proc.input, parseRepositoryName(proc.input.sourceUrl))

\* the name createRuntimeInstance settles on: from the listing it awaited,
\* whatever the directory holds by now
chooseFromListing(fs, proc) ==
  chooseRuntimeName({item.record.name : item \in proc.existing}, proc.input,
                    parseRepositoryName(proc.input.sourceUrl))

\* the positional arguments and --name of the interleaved creates
RaceArgs ==
  {[inputs |-> <<HarnessUrl>>, name |-> NoName],
   [inputs |-> <<HarnessUrl>>, name |-> MyHarness]}

\* the process ends: the command reports, its memory stays for inspection
Finish(pid, proc, fs) ==
  /\ procs' = [procs EXCEPT ![pid] = [proc EXCEPT !.phase = "done",
                                                  !.err = fs.err]]
  /\ files' = fs.files
  /\ dirs' = fs.dirs
  /\ last' = [op |-> "create", exit |-> ExitCode(fs), err |-> fs.err,
              explicit |-> proc.input.name # NoName,
              created |-> IF fs.err = "" THEN <<proc.record.name>> ELSE <<>>,
              pid |-> pid]
  /\ UNCHANGED clock

\* the process goes on to its next await
Proceed(pid, proc, phase, fs) ==
  IF fs.err # ""
    THEN Finish(pid, proc, fs)
    ELSE /\ procs' = [procs EXCEPT ![pid] = [proc EXCEPT !.phase = phase]]
         /\ files' = fs.files
         /\ dirs' = fs.dirs
         /\ UNCHANGED <<clock, last>>

Resolved1(pid, out) ==
  Proceed(pid, [procs[pid] EXCEPT !.scope = out.scope, !.input = out.input],
          "resolved", out.fs)

StartCreate(pid) ==
  /\ procs[pid].phase = "idle"
  /\ \E args \in RaceArgs, at \in ScopeOptions :
       Resolved1(pid, createCommandResolve(FS, args.inputs,
                        [name |-> args.name, env |-> at.env,
                         project |-> at.project]))

ListExisting(pid) ==
  /\ procs[pid].phase = "resolved"
  /\ Proceed(pid,
             [procs[pid] EXCEPT
                !.existing = listRuntimeInstances(FS, procs[pid].scope.instancesDir)],
             "listed",
             IF procs[pid].scope.instancesDir \in dirs
               THEN FS ELSE Throw(FS, "ENOENT"))

Written(pid, out) ==
  Proceed(pid, [procs[pid] EXCEPT !.record = out.record], "written", out.fs)

WriteInstance(pid) ==
  /\ procs[pid].phase = "listed"
  /\ Written(pid,
       writeRuntimeInstance(FS, procs[pid].scope, procs[pid].input, clock,
                            FreshRuntimeId(FS),
                            parseRepositoryName(procs[pid].input.sourceUrl),
                            chooseFromListing(FS, procs[pid])))

ListForCount(pid) ==
  /\ procs[pid].phase = "written"
  /\ Proceed(pid,
             [procs[pid] EXCEPT
                !.entries = listRuntimeInstances(FS, procs[pid].scope.instancesDir)],
             "counted", FS)

WriteCount(pid) ==
  /\ procs[pid].phase = "counted"
  /\ Finish(pid, procs[pid],
            writeProjectRuntimeCount(FS, procs[pid].scope, procs[pid].entries,
                                     clock))

\* init, run before any create process starts
RaceInit ==
  /\ \A pid \in Pids : procs[pid].phase = "idle"
  /\ InitCmd

NextRace ==
  \/ Tick
  \/ RaceInit
  \/ \E pid \in Pids : StartCreate(pid)
  \/ \E pid \in Pids : ListExisting(pid)
  \/ \E pid \in Pids : WriteInstance(pid)
  \/ \E pid \in Pids : ListForCount(pid)
  \/ \E pid \in Pids : WriteCount(pid)

SpecRace == Init /\ [][NextRace]_vars

(***************************************************************************)
(* run as the steps it awaits, for processes that run interleaved on one   *)
(* tenancy root with no lock: find the instance by name, then save the     *)
(* record built from the one that was found.  init and create run before   *)
(* any run process starts.                                                 *)
(***************************************************************************)
\* runCommand up to the runtime it found: one outcome for each record
\* findRuntimeByName may return
runCommandFind(fs, options) ==
  LET resolved == resolveProjectScope(fs, [environment |-> options.env,
                                           projectId |-> options.project])
      found == findRuntimeByName(resolved.fs, resolved.scope, options.name)
  IN IF resolved.fs.err # ""
       THEN {[fs |-> resolved.fs, filePath |-> <<>>, record |-> NoRecord]}
     ELSE IF found = {}
       THEN {[fs |-> Throw(resolved.fs, "InstanceNotFound"),
              filePath |-> <<>>, record |-> NoRecord]}
     ELSE {[fs |-> resolved.fs, filePath |-> runtime.filePath,
            record |-> runtime.record] : runtime \in found}

\* a variant that reads the record again when it saves
saveStartedReadingAgain(fs, proc, now) ==
  saveRuntimeRecord(fs, proc.filePath,
                    startedRecord(readJson(fs, proc.filePath), now))

\* the save of a run that is not dry: the record found, marked as started
saveStarted(fs, proc, now) ==
  saveRuntimeRecord(fs, proc.filePath, startedRecord(proc.record, now))

\* the run process ends: the command reports, its memory stays
FinishRun(pid, proc, fs) ==
  /\ procs' = [procs EXCEPT ![pid] = [proc EXCEPT !.phase = "done",
                                                  !.err = fs.err]]
  /\ files' = fs.files
  /\ dirs' = fs.dirs
  /\ last' = [op |-> "run", exit |-> ExitCode(fs), err |-> fs.err,
              dryRun |-> FALSE, pid |-> pid]
  /\ UNCHANGED clock

Found(pid, out) ==
  IF out.fs.err # ""
    THEN FinishRun(pid, procs[pid], out.fs)
    ELSE /\ procs' = [procs EXCEPT ![pid] = [@ EXCEPT !.phase = "found",
                                                      !.filePath = out.filePath,
                                                      !.record = out.record]]
         /\ files' = out.fs.files
         /\ dirs' = out.fs.dirs
         /\ UNCHANGED <<clock, last>>

StartRun(pid) ==
  /\ procs[pid].phase = "idle"
  /\ \E name \in RunNames, at \in ScopeOptions :
       \E out \in runCommandFind(FS, [name |-> name, env |-> at.env,
                                      project |-> at.project]) :
         Found(pid, out)

SaveRun(pid) ==
  /\ procs[pid].phase = "found"
  /\ FinishRun(pid, procs[pid], saveStarted(FS, procs[pid], clock))

\* create, run before any run process starts
RaceCreate ==
  /\ \A pid \in Pids : procs[pid].phase = "idle"
  /\ CreateCmd

NextRunRace ==
  \/ Tick
  \/ RaceInit
  \/ RaceCreate
  \/ \E pid \in Pids : StartRun(pid)
  \/ \E pid \in Pids : SaveRun(pid)

SpecRunRace == Init /\ [][NextRunRace]_vars

(***************************************************************************)
(* Properties of the instance registry.                                    *)
(***************************************************************************)
ProjectIds == ProjectOptions \ {Undefined}

MyTool == <<"m","y","-","t","o","o","l">>
HarnessOne == AutoCandidate(MyHarness, 1)
HarnessTwo == AutoCandidate(MyHarness, 2)

\* the instance records of one instances directory
RecordsIn(fs, instancesDir) ==
  {item.record : item \in listRuntimeInstances(fs, instancesDir)}

NamesIn(fs, instancesDir) == {r.name : r \in RecordsIn(fs, instancesDir)}

InstancesDirs ==
  {getInstancesDir(e, p) : e \in EnvironmentNames, p \in ProjectIds}

\* C1: no two instance records of the same (environment, project)
\* instances directory carry the same name, in any state that init, create
\* (with or without a name), run and context set can lead to.
UniqueNamesPerScope ==
  \A p \in AllInstanceFiles(FS), q \in AllInstanceFiles(FS) :
    (Parent(p) = Parent(q) /\ readJson(FS, p).name = readJson(FS, q).name)
      => p = q

\* two instances live side by side in one scope, the second just created
TwoInstancesInOneScope ==
  /\ last.op = "create"
  /\ last.err = ""
  /\ \E d \in InstancesDirs : Cardinality(readdir(FS, d)) = 2

\* C2: the runtimeCount a project record holds is the number of instance
\* files in the project's instances directory, whatever creations succeeded
\* or failed with InvalidName or DuplicateName before.
RuntimeCountIsFileCount ==
  \A e \in EnvironmentNames, p \in ProjectIds :
    pathExists(FS, getProjectFilePath(e, p))
      => readJson(FS, getProjectFilePath(e, p)).runtimeCount
           = Cardinality(readdir(FS, getInstancesDir(e, p)))

\* a create has just failed on its name in a root that holds an instance
CreateFailedAmongInstances ==
  /\ last.op = "create"
  /\ last.err \in {"InvalidName", "DuplicateName"}
  /\ \E e \in EnvironmentNames, p \in ProjectIds :
       /\ pathExists(FS, getProjectFilePath(e, p))
       /\ readJson(FS, getProjectFilePath(e, p)).runtimeCount >= 1

\* the names a scope may hold around a base name
TakenPool(baseName) ==
  {baseName} \cup {AutoCandidate(baseName, n) : n \in 1..MaxSuffix}

TakenSets(baseName) ==
  SUBSET TakenPool(baseName) \cup {NamesIn(FS, d) : d \in InstancesDirs}

\* C3: for a base name and a set of taken names, findNextAutoName returns
\* <base>-<n> for the smallest n >= 1 whose <base>-<n> is not taken, so a
\* gap below the highest suffix in use is filled first.
AutoSuffixIsSmallestFree ==
  \A baseName \in {MyHarness, MyTool} :
    \A taken \in TakenSets(baseName) :
      \E n \in 1..(Cardinality(taken) + 1) :
        /\ findNextAutoName(baseName, taken) = AutoCandidate(baseName, n)
        /\ AutoCandidate(baseName, n) \notin taken
        /\ \A m \in 1..(n - 1) : AutoCandidate(baseName, m) \in taken

\* my-harness-2 was there first (explicitly named), and the create without
\* a name that followed took my-harness-1
GapFilledFirst ==
  /\ last.op = "create"
  /\ ~last.explicit
  /\ last.created = <<HarnessOne>>
  /\ \E d \in InstancesDirs :
       \E first \in RecordsIn(FS, d), second \in RecordsIn(FS, d) :
         /\ first.id = RuntimeId(1) /\ first.name = HarnessTwo
         /\ second.id = RuntimeId(2) /\ second.name = HarnessOne

\* create <url> with no name and no scope option
DefaultCreate(fs, url) ==
  createCommand(fs, <<url>>,
                [name |-> NoName, env |-> Undefined, project |-> Undefined],
                clock)

\* the names of the instances a create command made
CreatedNames(out) == [i \in DOMAIN out.created |-> out.created[i].name]

JustInitialized == last.op = "init" /\ last.err = ""

\* C4, as the code has it: right after init, create
\* https://github.com/acme/my-harness with no name makes the instance
\* my-harness-1 whose source.repository is my-harness, and the same create
\* again makes my-harness-2.
FreshCreatesAreSuffixed ==
  JustInitialized =>
    LET first == DefaultCreate(FS, HarnessUrl)
        second == DefaultCreate(first.fs, HarnessUrl)
    IN /\ first.fs.err = ""
       /\ CreatedNames(first) = <<HarnessOne>>
       /\ first.created[1].source.repository = MyHarness
       /\ second.fs.err = ""
       /\ CreatedNames(second) = <<HarnessTwo>>

\* C4, as stated: the first instance is named my-harness, like its
\* source.repository, and the second my-harness-1.
FreshCreateIsUnsuffixed ==
  JustInitialized =>
    LET first == DefaultCreate(FS, HarnessUrl)
        second == DefaultCreate(first.fs, HarnessUrl)
    IN /\ first.fs.err = ""
       /\ CreatedNames(first) = <<MyHarness>>
       /\ first.created[1].source.repository = MyHarness
       /\ second.fs.err = ""
       /\ CreatedNames(second) = <<HarnessOne>>

\* the default scope of a root holds exactly the two instances made from
\* the my-harness URL, and the one made last is my-harness-2
DefaultScopeHoldsBoth ==
  /\ last.op = "create"
  /\ ~last.explicit
  /\ last.created = <<HarnessTwo>>
  /\ pathExists(FS, contextPath)
  /\ readJson(FS, contextPath).environment = "production"
  /\ NamesIn(FS, getInstancesDir("production", "prj_default"))
       = {HarnessOne, HarnessTwo}
  /\ \A r \in RecordsIn(FS, getInstancesDir("production", "prj_default")) :
       r.source.url = HarnessUrl /\ r.source.repository = MyHarness

\* a source URL and the base name its instances get
AutoCases ==
  {[url |-> HarnessUrl, baseName |-> MyHarness],
   [url |-> ToolUrl, baseName |-> MyTool]}

\* create <url> with no name under the scope options `at`, starting from fs
AutoCreate(fs, url, at) ==
  createCommand(fs, <<url>>,
                [name |-> NoName, env |-> at.env, project |-> at.project], clock)

\* what resolveProjectScope makes of the scope options `at`
Resolved(at) ==
  resolveProjectScope(FS, [environment |-> at.env, projectId |-> at.project])

\* C5: two creates in a row from one source URL, without a name, in a scope
\* that held no instance, both succeed; the first makes <base>-1 and the
\* second <base>-2.
TwoAutoCreatesCountUp ==
  \A at \in ScopeOptions :
    LET resolved == Resolved(at)
    IN (resolved.fs.err = "" /\ readdir(FS, resolved.scope.instancesDir) = {})
       => \A c \in AutoCases :
            LET first == AutoCreate(FS, c.url, at)
                second == AutoCreate(first.fs, c.url, at)
            IN /\ first.fs.err = ""
               /\ CreatedNames(first) = <<AutoCandidate(c.baseName, 1)>>
               /\ second.fs.err = ""
               /\ CreatedNames(second) = <<AutoCandidate(c.baseName, 2)>>

\* the development scope, chosen by --env, holds the two instances of two
\* creates without a name
DevelopmentScopeCountsUp ==
  /\ last.op = "create"
  /\ ~last.explicit
  /\ last.created = <<HarnessTwo>>
  /\ \E first \in RecordsIn(FS, getInstancesDir("development", "prj_default")),
        second \in RecordsIn(FS, getInstancesDir("development", "prj_default")) :
       /\ first.id = RuntimeId(1) /\ first.name = HarnessOne
       /\ second.id = RuntimeId(2) /\ second.name = HarnessTwo
       /\ first.source.url = second.source.url

\* a name as typed and what sanitizeName makes of it
ExplicitCases ==
  {[typed |-> SpacedName, sanitized |-> HarnessTwo],
   [typed |-> MyHarness, sanitized |-> MyHarness],
   [typed |-> <<" ","M","Y","_","H","a","r","n","e","s","s","-","1","!">>,
    sanitized |-> HarnessOne]}

\* C6: createRuntimeInstance with an explicit name whose sanitized form is
\* the name of an instance of the scope fails with DuplicateName and writes
\* nothing: every file, the project record among them, and every directory
\* is as before.
DuplicateNameWritesNothing ==
  \A at \in ScopeOptions :
    LET resolved == Resolved(at)
    IN resolved.fs.err = ""
       => \A c \in ExplicitCases :
            c.sanitized \in NamesIn(FS, resolved.scope.instancesDir)
            => LET out == createRuntimeInstance(resolved.fs, resolved.scope,
                            [sourceUrl |-> HarnessUrl, name |-> c.typed,
                             target |-> "docker"],
                            clock, FreshRuntimeId(FS))
               IN /\ out.fs.err = "DuplicateName"
                  /\ out.fs.files = files
                  /\ out.fs.dirs = dirs

\* a create with a name has just failed with DuplicateName, later than the
\* last write of the project that holds an instance
DuplicateNameRefused ==
  /\ last.op = "create"
  /\ last.explicit
  /\ last.err = "DuplicateName"
  /\ \E e \in EnvironmentNames :
       /\ readJson(FS, getProjectFilePath(e, "prj_default")).runtimeCount = 1
       /\ readJson(FS, getProjectFilePath(e, "prj_default")).updatedAt < clock

\* C7: resolveProjectScope takes the environment from the override when
\* there is one and from the persisted context otherwise, and the project
\* likewise, each on its own; here also with a second project, made by
\* createDefaultProject, in either environment.
ScopeFollowsOverrides ==
  StateRootError(FS) = "" =>
    \A madeIn \in EnvironmentNames, env \in EnvOptions, project \in ProjectOptions :
      LET fs == createDefaultProject(FS, madeIn, clock, "prj_other", "other")
          context == readJson(fs, contextPath)
          environment == IF env = Undefined THEN context.environment ELSE env
          projectId == IF project = Undefined THEN context.projectId ELSE project
          resolved == resolveProjectScope(fs, [environment |-> env,
                                               projectId |-> project])
      IN pathExists(fs, getProjectFilePath(environment, projectId))
         => /\ resolved.fs.err = ""
            /\ resolved.scope.environment = environment
            /\ resolved.scope.projectId = projectId
            /\ resolved.scope.instancesDir = getInstancesDir(environment, projectId)

\* a listing with --env alone has just shown the other environment, with
\* the project of the context
ListedOtherEnvironment ==
  /\ last.op = "instanceList"
  /\ last.err = ""
  /\ pathExists(FS, contextPath)
  /\ last.scope.environment # readJson(FS, contextPath).environment
  /\ last.scope.projectId = readJson(FS, contextPath).projectId

\* C8: when the project record of the effective (environment, project)
\* pair is missing, resolveProjectScope fails with ProjectNotFound and
\* leaves every file and every directory as it was: no project record,
\* project directory, instances directory or runs directory appears.
MissingProjectIsNeverMade ==
  StateRootError(FS) = "" =>
    \A env \in EnvOptions, project \in ProjectOptions :
      LET context == readJson(FS, contextPath)
          environment == IF env = Undefined THEN context.environment ELSE env
          projectId == IF project = Undefined THEN context.projectId ELSE project
          resolved == resolveProjectScope(FS, [environment |-> env,
                                               projectId |-> project])
      IN ~pathExists(FS, getProjectFilePath(environment, projectId))
         => /\ resolved.fs.err = "ProjectNotFound"
            /\ resolved.fs.files = files
            /\ resolved.fs.dirs = dirs
            /\ ~pathExists(resolved.fs, getProjectDir(environment, projectId))

\* a command has just been refused for a project that does not exist, and
\* nothing of that project is on disk
MissingProjectRefused ==
  /\ last.op \in {"create", "run", "instanceList"}
  /\ last.err = "ProjectNotFound"
  /\ pathExists(FS, manifestPath)
  /\ \A e \in EnvironmentNames : ~pathExists(FS, getProjectDir(e, "prj_other"))

\* C9: resolveProjectScope fails with NotInitialized whenever the manifest
\* is absent, the context file absent or not, and with ContextMissing
\* whenever the manifest is there and the context file is not, whatever
\* overrides are given.
RootErrorsAreDistinct ==
  \A env \in EnvOptions, project \in ProjectOptions :
    LET resolved == resolveProjectScope(FS, [environment |-> env,
                                             projectId |-> project])
    IN /\ ~pathExists(FS, manifestPath)
            => resolved.fs.err = "NotInitialized" /\ resolved.fs.files = files
       /\ (pathExists(FS, manifestPath) /\ ~pathExists(FS, contextPath))
            => resolved.fs.err = "ContextMissing" /\ resolved.fs.files = files

\* the manifest is there, the context file is not, and a command has just
\* been refused over it
ContextMissingReported ==
  /\ pathExists(FS, manifestPath)
  /\ ~pathExists(FS, contextPath)
  /\ last.op \in {"create", "run", "instanceList"}
  /\ last.err = "ContextMissing"

\* C10: initializeState with force = false on a root whose manifest exists
\* fails with AlreadyInitialized and leaves every file and directory
\* (manifest, organization, credential, environments, projects, instances,
\* runs, context) as it was.
InitWithoutForceKeepsRoot ==
  pathExists(FS, manifestPath) =>
    \A org \in OrgOptions \cup {<<>>}, organizationId \in OrganizationIds,
       apiKey \in ApiKeys :
      LET out == initializeState(FS, [orgName |-> orgNameOf(org), force |-> FALSE],
                                 clock, organizationId, apiKey)
      IN /\ out.fs.err = "AlreadyInitialized"
         /\ out.fs.files = files
         /\ out.fs.dirs = dirs

\* init without --force has just been refused on a root that holds an
\* instance, at a later time than the manifest's
InitRefusedOnUsedRoot ==
  /\ last.op = "init"
  /\ ~last.force
  /\ last.err = "AlreadyInitialized"
  /\ AllInstanceFiles(FS) # {}
  /\ readJson(FS, manifestPath).initializedAt < clock

(***************************************************************************)
(* Properties of the tenancy initializer.                                  *)
(***************************************************************************)
\* the root as initializeState leaves it: the context is
\* production/prj_default and each environment holds prj_default alone,
\* with runtimeCount 0, and neither instance nor run records
FreshRoot(fs) ==
  /\ pathExists(fs, manifestPath)
  /\ pathExists(fs, contextPath)
  /\ readJson(fs, contextPath).environment = "production"
  /\ readJson(fs, contextPath).projectId = "prj_default"
  /\ \A e \in EnvironmentNames :
       /\ {r.id : r \in listProjectRecords(fs, e)} = {"prj_default"}
       /\ \A r \in listProjectRecords(fs, e) :
            r.runtimeCount = 0 /\ r.environment = e
       /\ pathExists(fs, getProjectFilePath(e, "prj_default"))
  /\ AllInstanceFiles(fs) = {}
  /\ AllRunFiles(fs) = {}

\* C11: initializeState with force = true on a root that has a manifest
\* succeeds, reports overwritten, and leaves nothing of what was there: no
\* instance or run record, prj_default alone in each environment with
\* runtimeCount 0, the context production/prj_default; the root is the one
\* the same call makes of an empty directory.
ForcedInitStartsOver ==
  pathExists(FS, manifestPath) =>
    \A organizationId \in OrganizationIds, apiKey \in ApiKeys :
      LET out == initializeState(FS, [orgName |-> Acme, force |-> TRUE],
                                 clock, organizationId, apiKey)
          anew == initializeState([files |-> NoFiles, dirs |-> {}, err |-> ""],
                                  [orgName |-> Acme, force |-> TRUE],
                                  clock, organizationId, apiKey)
      IN /\ out.fs.err = ""
         /\ out.overwritten
         /\ FreshRoot(out.fs)
         /\ out.fs = anew.fs

\* init --force has just reset a root that was initialized at an earlier
\* time
ForcedInitDone ==
  /\ last.op = "init"
  /\ last.force
  /\ last.overwritten
  /\ last.err = ""
  /\ clock > 0
  /\ readJson(FS, manifestPath).initializedAt = clock
  /\ FreshRoot(FS)

\* organization names as given to initializeState; it keeps them as they are
OrgNames == {Acme, <<"A","c"," ","M","e">>}

\* C12: initializeState with organization name N on a root without a
\* manifest succeeds, does not report overwritten, writes N as the
\* organization's name, makes production/prj_default the context and
\* leaves each environment with prj_default alone, runtimeCount 0, and no
\* instance or run record.
FirstInitMakesFreshRoot ==
  ~pathExists(FS, manifestPath) =>
    \A orgName \in OrgNames, force \in BOOLEAN,
       organizationId \in OrganizationIds, apiKey \in ApiKeys :
      LET out == initializeState(FS, [orgName |-> orgName, force |-> force],
                                 clock, organizationId, apiKey)
      IN /\ out.fs.err = ""
         /\ ~out.overwritten
         /\ readJson(out.fs, organizationPath).name = orgName
         /\ readJson(out.fs, organizationPath).id = organizationId
         /\ FreshRoot(out.fs)

\* init has just made the root of the organization acme, where there was
\* no manifest
FirstInitDone ==
  /\ last.op = "init"
  /\ ~last.overwritten
  /\ last.err = ""
  /\ readJson(FS, organizationPath).name = Acme
  /\ readJson(FS, manifestPath).initializedAt = clock
  /\ FreshRoot(FS)

(***************************************************************************)
(* Properties of the current context.                                      *)
(***************************************************************************)
\* C13: after every completed init, context set, project use, create, run
\* or listing, the context file, when there is one, names an environment
\* and a project whose project record exists.
ContextNamesExistingProject ==
  pathExists(FS, contextPath) =>
    /\ readJson(FS, contextPath).environment \in EnvironmentNames
    /\ pathExists(FS, getProjectFilePath(readJson(FS, contextPath).environment,
                                         readJson(FS, contextPath).projectId))

\* context set has just moved the context to the development environment
ContextMovedToDevelopment ==
  /\ last.op = "contextSet"
  /\ last.err = ""
  /\ readJson(FS, contextPath).environment = "development"
  /\ readJson(FS, contextPath).updatedAt = clock
  /\ readJson(FS, manifestPath).initializedAt < clock

(***************************************************************************)
(* Properties of the run command.                                          *)
(***************************************************************************)
\* the fields of an instance record a run rewrites
RunFields == {"status", "running", "runCount", "lastRunAt", "updatedAt"}

\* the instance files of the scope the options `at` select that carry `name`
Named(at, name) ==
  IF Resolved(at).fs.err # "" THEN {}
  ELSE {item.filePath :
          item \in findRuntimeByName(FS, Resolved(at).scope, name)}

RunOptions(at, name, dryRun) ==
  [name |-> name, dryRun |-> dryRun, env |-> at.env, project |-> at.project]

\* C14: a run that is not dry, against a name an instance of the scope
\* carries, succeeds and leaves that instance with status "running",
\* running true, runCount one more than before (1 on the first run), and
\* lastRunAt and updatedAt both at the time of the run.
RunMarksInstanceRunning ==
  \A at \in ScopeOptions, name \in RunNames :
    Named(at, name) # {} =>
      \A out \in runCommand(FS, RunOptions(at, name, FALSE), clock) :
        /\ out.fs.err = ""
        /\ out.filePath \in Named(at, name)
        /\ LET before == readJson(FS, out.filePath)
               after == readJson(out.fs, out.filePath)
           IN /\ after.status = "running"
              /\ after.running = TRUE
              /\ after.runCount = before.runCount + 1
              /\ (before.status = "created" => after.runCount = 1)
              /\ after.lastRunAt = clock
              /\ after.updatedAt = clock

\* a first run has just marked an instance that was created at an earlier
\* time
FirstRunDone ==
  /\ last.op = "run"
  /\ ~last.dryRun
  /\ last.err = ""
  /\ \E p \in AllInstanceFiles(FS) :
       /\ readJson(FS, p).status = "running"
       /\ readJson(FS, p).runCount = 1
       /\ readJson(FS, p).lastRunAt = clock
       /\ readJson(FS, p).updatedAt = clock
       /\ readJson(FS, p).createdAt < clock

\* C16: a dry run against a name an instance of the scope carries reports
\* success and changes nothing: the instance record, the project record,
\* the context and every other file and directory are as before.
DryRunChangesNothing ==
  \A at \in ScopeOptions, name \in RunNames :
    Named(at, name) # {} =>
      \A out \in runCommand(FS, RunOptions(at, name, TRUE), clock) :
        /\ out.fs.err = ""
        /\ ExitCode(out.fs) = 0
        /\ out.filePath \in Named(at, name)
        /\ out.fs.files = files
        /\ out.fs.dirs = dirs

\* a dry run has just succeeded, later than the last write of an instance
\* that was never run
DryRunDone ==
  /\ last.op = "run"
  /\ last.dryRun
  /\ last.err = ""
  /\ AllInstanceFiles(FS) # {}
  /\ \A p \in AllInstanceFiles(FS) :
       /\ readJson(FS, p).status = "created"
       /\ readJson(FS, p).runCount = 0
       /\ readJson(FS, p).updatedAt < clock

\* C17: a run that is not dry rewrites the targeted instance in its own
\* file and changes its status, running, runCount, lastRunAt and updatedAt
\* only; every other field of it, every other file and every directory is
\* as before.
RunTouchesRunFieldsOnly ==
  \A at \in ScopeOptions, name \in RunNames :
    Named(at, name) # {} =>
      \A out \in runCommand(FS, RunOptions(at, name, FALSE), clock) :
        /\ DOMAIN out.fs.files = DOMAIN files
        /\ out.fs.dirs = dirs
        /\ \A p \in DOMAIN files :
             p # out.filePath => readJson(out.fs, p) = readJson(FS, p)
        /\ LET before == readJson(FS, out.filePath)
               after == readJson(out.fs, out.filePath)
           IN /\ DOMAIN after = DOMAIN before \cup {"lastRunAt"}
              /\ {"id", "name", "environment", "projectId", "target",
                  "source", "createdAt"} \subseteq DOMAIN before \ RunFields
              /\ \A f \in DOMAIN before \ RunFields : after[f] = before[f]

\* one of two instances of a scope has just been run, at a later time than
\* both were created, and the other is as it was made
OneOfTwoRun ==
  /\ last.op = "run"
  /\ ~last.dryRun
  /\ last.err = ""
  /\ \E d \in InstancesDirs :
       \E ran \in RecordsIn(FS, d), other \in RecordsIn(FS, d) :
         /\ ran.status = "running" /\ ran.createdAt < ran.updatedAt
         /\ other.status = "created" /\ other.updatedAt = other.createdAt

\* the run records in the runs directory of the scope that holds `filePath`
RunsOf(fs, filePath) ==
  {p \in AllRunFiles(fs) : p[2] = filePath[2] /\ p[4] = filePath[4]}

\* C15: every run that is not dry, against a name an instance of the scope
\* carries, leaves exactly one more Run record in the runs directory of the
\* scope than there was before.
RunAppendsOneRunRecord ==
  \A at \in ScopeOptions, name \in RunNames :
    Named(at, name) # {} =>
      \A out \in runCommand(FS, RunOptions(at, name, FALSE), clock) :
        Cardinality(RunsOf(out.fs, out.filePath))
          = Cardinality(RunsOf(FS, out.filePath)) + 1

(***************************************************************************)
(* Properties of a create that dies between its two writes.                *)
(***************************************************************************)
CreateOptions(args, at) ==
  [name |-> args.name, env |-> at.env, project |-> at.project]

\* the fields of a complete instance record before its first run
InstanceFields ==
  {"id", "name", "environment", "projectId", "target", "source", "status",
   "running", "createdAt", "updatedAt", "runCount"}

\* the persisted runtimeCount of the project of `scope`
CountOf(fs, scope) ==
  readJson(fs, getProjectFilePath(scope.environment, scope.projectId)).runtimeCount

FilesOf(fs, scope) == readdir(fs, scope.instancesDir)

\* C18: from a scope whose runtimeCount is the number of its instance
\* files, a create that dies after writing the instance file and before
\* writing the project record leaves one new file that holds the complete
\* record and that list returns, and a runtimeCount one less than the
\* number of instance files; every successful create that comes next in
\* that scope makes runtimeCount the number of instance files again.
CutCreateLeavesCountOneBehind ==
  \A at \in ScopeOptions, args \in CreateArgs :
    LET scope == Resolved(at).scope
        cut == createCommandCut(FS, args.inputs, CreateOptions(args, at), clock)
        whole == createCommand(FS, args.inputs, CreateOptions(args, at), clock)
    IN (/\ Resolved(at).fs.err = ""
        /\ CountOf(FS, scope) = Cardinality(FilesOf(FS, scope))
        /\ cut.fs.err = "")
       =>
       /\ Cardinality(FilesOf(cut.fs, scope)) = Cardinality(FilesOf(FS, scope)) + 1
       /\ \A p \in FilesOf(cut.fs, scope) \ FilesOf(FS, scope) :
            /\ DOMAIN readJson(cut.fs, p) = InstanceFields
            /\ <<readJson(cut.fs, p)>> = whole.created
            /\ [filePath |-> p, record |-> readJson(cut.fs, p)]
                 \in listRuntimeInstances(cut.fs, scope.instancesDir)
            /\ readJson(cut.fs, p)
                 \in instanceListCommand(cut.fs,
                       [env |-> at.env, project |-> at.project]).instances
       /\ \A p \in DOMAIN files : readJson(cut.fs, p) = readJson(FS, p)
       /\ CountOf(cut.fs, scope) = Cardinality(FilesOf(cut.fs, scope)) - 1
       /\ \A next \in CreateArgs :
            LET after == createCommand(cut.fs, next.inputs,
                                       CreateOptions(next, at), clock)
            IN after.fs.err = "" =>
                 /\ Cardinality(FilesOf(after.fs, scope))
                      = Cardinality(FilesOf(cut.fs, scope)) + 1
                 /\ CountOf(after.fs, scope)
                      = Cardinality(FilesOf(after.fs, scope))

\* a create has just died after its write: the production default project
\* holds one complete instance record and still counts none
CreateDiedBeforeRecount ==
  /\ last.op = "create"
  /\ last.err = "Crash"
  /\ \E p \in AllInstanceFiles(FS) :
       /\ AllInstanceFiles(FS) = {p}
       /\ p[2] = "production"
       /\ DOMAIN readJson(FS, p) = InstanceFields
       /\ readJson(FS, p).status = "created"
  /\ readJson(FS, getProjectFilePath("production", "prj_default")).runtimeCount = 0

(***************************************************************************)
(* Properties of creates that run interleaved.                             *)
(***************************************************************************)
\* the processes that wrote their instance file
Writers == {pid \in Pids : procs[pid].record # NoRecord}

FileOf(pid) == procs[pid].scope.instancesDir \o <<procs[pid].record.id>>

ListedNames(pid) == {item.record.name : item \in procs[pid].existing}

ListedPaths(pid) == {item.filePath : item \in procs[pid].existing}

CountedPaths(pid) == {item.filePath : item \in procs[pid].entries}

\* two processes that create without a name, from one source, in one scope
AutoPair(p, q) ==
  /\ p # q
  /\ procs[p].input.name = NoName
  /\ procs[q].input.name = NoName
  /\ procs[p].input.sourceUrl = procs[q].input.sourceUrl
  /\ procs[p].scope.instancesDir = procs[q].scope.instancesDir

\* C19: of two creates without a name, from one source and in one scope,
\* that both wrote their file: when both listed the same names before
\* writing, the two files are distinct, both are in the directory and both
\* carry the same auto-suffixed name; when one listed the file of the
\* other, the names differ.
SameListingSameName ==
  \A p \in Writers, q \in Writers :
    AutoPair(p, q) =>
      /\ FileOf(p) # FileOf(q)
      /\ readJson(FS, FileOf(p)) = procs[p].record
      /\ readJson(FS, FileOf(q)) = procs[q].record
      /\ procs[p].record.name
           = findNextAutoName(sanitizeName(parseRepositoryName(
                                procs[p].input.sourceUrl)),
                              ListedNames(p))
      /\ ListedNames(p) = ListedNames(q)
           => procs[p].record.name = procs[q].record.name
      /\ FileOf(p) \in ListedPaths(q)
           => procs[p].record.name # procs[q].record.name

\* both creates have returned with success and their two files, in the
\* production default project, are both named my-harness-1
TwoFilesShareAutoName ==
  /\ \A pid \in Pids : procs[pid].phase = "done" /\ procs[pid].err = ""
  /\ \E p \in Pids, q \in Pids :
       /\ AutoPair(p, q)
       /\ FileOf(p) # FileOf(q)
       /\ procs[p].scope.instancesDir = getInstancesDir("production", "prj_default")
       /\ readJson(FS, FileOf(p)).name = HarnessOne
       /\ readJson(FS, FileOf(q)).name = HarnessOne
       /\ Cardinality(NamesIn(FS, procs[p].scope.instancesDir)) = 1
       /\ Cardinality(FilesOf(FS, procs[p].scope)) = 2

\* C20: right after a create returned with success, the persisted
\* runtimeCount of its project is the number of entries that create listed
\* after its own write; its own file is among them, all of them are still
\* there, and every instance file that is not among them was written by
\* another create.  So the count is never more than the number of instance
\* files, and it is less when another create wrote after the listing.
CountIsWhatTheLastWriterListed ==
  \A p \in Pids :
    (last.op = "create" /\ last.err = "" /\ last.pid = p) =>
      /\ CountOf(FS, procs[p].scope) = Cardinality(procs[p].entries)
      /\ FileOf(p) \in CountedPaths(p)
      /\ CountedPaths(p) \subseteq FilesOf(FS, procs[p].scope)
      /\ CountOf(FS, procs[p].scope) <= Cardinality(FilesOf(FS, procs[p].scope))
      /\ \A f \in FilesOf(FS, procs[p].scope) \ CountedPaths(p) :
           \E q \in Writers \ {p} : f = FileOf(q)

\* both creates have returned with success in one scope, the one that
\* returned last had listed one entry, the other had listed both, and the
\* project counts one instance where the directory holds two
CountBehindAfterBothReturned ==
  /\ \A pid \in Pids : procs[pid].phase = "done" /\ procs[pid].err = ""
  /\ last.op = "create"
  /\ \E p \in Pids, q \in Pids :
       /\ last.pid = p
       /\ procs[p].scope.instancesDir = procs[q].scope.instancesDir
       /\ Cardinality(procs[p].entries) = 1
       /\ Cardinality(procs[q].entries) = 2
       /\ Cardinality(FilesOf(FS, procs[p].scope)) = 2
       /\ CountOf(FS, procs[p].scope) = 1

(***************************************************************************)
(* Properties of the records of the tenancy.                               *)
(***************************************************************************)
\* the manifest, the organization, the credential and the two environments
TenancyRecords ==
  {manifestPath, organizationPath, credentialsPath,
   developmentEnvironmentPath, productionEnvironmentPath}

\* C21: a step of any command other than init (create, run, context set,
\* project use, list, the passing of time) leaves the manifest, the
\* organization, the credential and both environment records as they were:
\* none appears, none disappears, none changes.
OnlyInitWritesTenancyRecords ==
  [][last'.op # "init" =>
       \A p \in TenancyRecords :
         /\ (p \in DOMAIN files') = (p \in DOMAIN files)
         /\ p \in DOMAIN files => files'[p] = files[p]]_vars

\* a create has just succeeded at a later time than init, and the five
\* records still carry the time of init
TenancyRecordsOlderThanCreate ==
  /\ last.op = "create"
  /\ last.err = ""
  /\ last.created # <<>>
  /\ TenancyRecords \subseteq DOMAIN files
  /\ readJson(FS, manifestPath).initializedAt < clock
  /\ \A p \in TenancyRecords \ {manifestPath} :
       readJson(FS, p).createdAt = readJson(FS, manifestPath).initializedAt
  /\ \E p \in AllInstanceFiles(FS) : readJson(FS, p).createdAt = clock

(***************************************************************************)
(* Properties of the name createRuntimeInstance settles on.                *)
(***************************************************************************)
\* the explicit names and source URLs createRuntimeInstance is tried on
NameInputs == {NoName, MyHarness, <<"_","_">>, <<" ">>}

UrlInputs == {HarnessUrl, BlankUrl}

\* the string createRuntimeInstance sanitizes
NameSource(input) ==
  IF input.name # NoName THEN input.name ELSE parseRepositoryName(input.sourceUrl)

RuntimeInput(name, url) == [sourceUrl |-> url, name |-> name, target |-> "docker"]

\* createRuntimeInstance in a scope resolveProjectScope returned
CreateIn(resolved, input) ==
  createRuntimeInstance(resolved.fs, resolved.scope, input, clock,
                        FreshRuntimeId(FS))

\* C22: createRuntimeInstance fails with InvalidName exactly when the
\* explicit name, if one is given, and else the repository name derived
\* from the source URL, sanitizes to the empty string; when it does, no
\* file is written: the instance files and the project record are as
\* before.
InvalidNameIffNothingLeft ==
  \A at \in ScopeOptions :
    LET resolved == Resolved(at)
    IN resolved.fs.err = "" =>
         \A name \in NameInputs, url \in UrlInputs :
           LET out == CreateIn(resolved, RuntimeInput(name, url))
           IN /\ (out.fs.err = "InvalidName")
                   = (sanitizeName(NameSource(RuntimeInput(name, url))) = <<>>)
              /\ out.fs.err = "InvalidName" =>
                   /\ out.record = NoRecord
                   /\ out.fs.files = resolved.fs.files
                   /\ out.fs.files = files
                   /\ out.fs.dirs = resolved.fs.dirs

\* a create with the explicit name "__" has just been refused on an
\* initialized root, which holds no instance and counts none
InvalidNameRefused ==
  /\ last.op = "create"
  /\ last.err = "InvalidName"
  /\ last.exit = 1
  /\ last.explicit
  /\ pathExists(FS, contextPath)
  /\ AllInstanceFiles(FS) = {}
  /\ \A e \in EnvironmentNames :
       readJson(FS, getProjectFilePath(e, "prj_default")).runtimeCount = 0

(***************************************************************************)
(* Properties of writeJson.                                                *)
(***************************************************************************)
\* paths the record store is asked to write
WritePaths ==
  TenancyRecords \cup {contextPath}
    \cup {getProjectFilePath(e, "prj_default") : e \in EnvironmentNames}
    \cup {getInstancesDir(e, "prj_default") \o <<RuntimeId(1)>> :
            e \in EnvironmentNames}

\* C23: a write to a path whose parent directory does not exist succeeds,
\* makes the missing directories, and leaves the value readable at the
\* path.
WriteMakesParentDirectories ==
  \A targetPath \in WritePaths :
    Parent(targetPath) \notin dirs =>
      LET out == writeJson(FS, targetPath, [createdAt |-> clock])
      IN /\ out.err = ""
         /\ Ancestors(Parent(targetPath)) \subseteq out.dirs
         /\ targetPath \in DOMAIN out.files
         /\ readJson(out, targetPath) = [createdAt |-> clock]

\* the explicit names tried: my-harness and "My Harness-2"
ExplicitNames == {MyHarness, SpacedName}

\* C24: a createRuntimeInstance with an explicit name that succeeds stores
\* the sanitized explicit name and nothing else, whatever names of the form
\* <sanitized>-<n> the scope holds; the name it settles on, for any set of
\* taken names, is the sanitized name itself or the DuplicateName error.
ExplicitNameIsKeptAsGiven ==
  /\ \A name \in ExplicitNames :
       \A taken \in TakenSets(sanitizeName(name)) :
         LET chosen == chooseRuntimeName(taken, RuntimeInput(name, HarnessUrl),
                                         parseRepositoryName(HarnessUrl))
         IN IF sanitizeName(name) \in taken
              THEN chosen.err = "DuplicateName"
              ELSE chosen.err = "" /\ chosen.name = sanitizeName(name)
  /\ \A at \in ScopeOptions :
       LET resolved == Resolved(at)
       IN resolved.fs.err = "" =>
            \A name \in ExplicitNames :
              LET out == CreateIn(resolved, RuntimeInput(name, HarnessUrl))
              IN out.fs.err = "" =>
                   /\ out.record.name = sanitizeName(name)
                   /\ \E p \in FilesOf(out.fs, resolved.scope) \ DOMAIN files :
                        readJson(out.fs, p).name = sanitizeName(name)

\* a create named my-harness has just succeeded in a scope that already
\* held my-harness-1, and its record is named my-harness
ExplicitNameBesideSuffixedOne ==
  /\ last.op = "create"
  /\ last.err = ""
  /\ last.explicit
  /\ last.created = <<MyHarness>>
  /\ \E d \in InstancesDirs : NamesIn(FS, d) = {MyHarness, HarnessOne}

(***************************************************************************)
(* Properties of context set and project use.                              *)
(***************************************************************************)
\* the pair context set or project use is to select is refused: an error,
\* exit code 1, and no file changed, the context among them
RefusedUnchanged(out) ==
  /\ out.err # ""
  /\ ExitCode(out) = 1
  /\ out.files = files
  /\ out.dirs = dirs

\* the context is replaced with the pair, and nothing else is written
ContextReplaced(out, environment, projectId) ==
  /\ out.err = ""
  /\ ExitCode(out) = 0
  /\ readJson(out, contextPath)
       = [environment |-> environment, projectId |-> projectId,
          updatedAt |-> clock]
  /\ DOMAIN out.files = DOMAIN files \cup {contextPath}
  /\ \A p \in DOMAIN files \ {contextPath} : readJson(out, p) = readJson(FS, p)

\* C25: context set for a pair whose project record does not exist is
\* refused and changes nothing; for a pair that exists it replaces the
\* context with that pair.  project use does the same for the pair of the
\* given project and the environment given, or the environment of the
\* current context when none is given.
ContextFollowsExistingPairsOnly ==
  /\ \A env \in EnvironmentNames, project \in ProjectIds :
       IF ProjectExists(FS, env, project)
         THEN ContextReplaced(
                contextSetCommand(FS, [env |-> env, project |-> project], clock),
                env, project)
         ELSE RefusedUnchanged(
                contextSetCommand(FS, [env |-> env, project |-> project], clock))
  /\ pathExists(FS, contextPath) =>
       \A env \in EnvOptions, project \in ProjectIds :
         LET environment == IF env = Undefined
                              THEN readJson(FS, contextPath).environment
                              ELSE env
         IN IF ProjectExists(FS, environment, project)
              THEN ContextReplaced(
                     projectUseCommand(FS, project, [env |-> env], clock),
                     environment, project)
              ELSE RefusedUnchanged(
                     projectUseCommand(FS, project, [env |-> env], clock))

\* project use has just succeeded, later than init, and the context names
\* the default project of development
ProjectUseInDevelopment ==
  /\ last.op = "projectUse"
  /\ last.err = ""
  /\ last.exit = 0
  /\ readJson(FS, contextPath).environment = "development"
  /\ readJson(FS, contextPath).projectId = "prj_default"
  /\ readJson(FS, contextPath).updatedAt = clock
  /\ readJson(FS, manifestPath).initializedAt < clock

(***************************************************************************)
(* Properties of a create with several sources.                            *)
(***************************************************************************)
\* source lists whose second, third or first source gives no valid name
FailingSourceLists ==
  {<<HarnessUrl, BlankUrl>>, <<HarnessUrl, ToolUrl, BlankUrl>>,
   <<BlankUrl, HarnessUrl>>}

\* the place of the first source that gives no valid name
FirstFailing(sources) ==
  CHOOSE k \in 1..Len(sources) :
    /\ sanitizeName(parseRepositoryName(sources[k])) = <<>>
    /\ \A j \in 1..(k - 1) : sanitizeName(parseRepositoryName(sources[j])) # <<>>

\* C26: a create of several sources whose k-th source fails exits with
\* code 1 and keeps what it did for the k-1 sources before: their k-1
\* instance files are in the scope, list returns them, and the project's
\* runtimeCount counts every instance file of the scope, the new ones
\* included; nothing is written for the k-th source and those after it.
SeveralSourcesAreNotAtomic ==
  \A at \in ScopeOptions :
    LET resolved == Resolved(at)
    IN resolved.fs.err = "" =>
         \A sources \in FailingSourceLists :
           LET out == createCommand(FS, sources,
                        [name |-> NoName, env |-> at.env, project |-> at.project],
                        clock)
               k == FirstFailing(sources)
               new == FilesOf(out.fs, resolved.scope) \ FilesOf(FS, resolved.scope)
           IN /\ out.fs.err = "InvalidName"
              /\ ExitCode(out.fs) = 1
              /\ Len(out.created) = k - 1
              /\ Cardinality(new) = k - 1
              /\ {readJson(out.fs, p) : p \in new} = Range(out.created)
              /\ \A r \in Range(out.created) :
                   /\ r.target = "swarm"
                   /\ r \in RecordsIn(out.fs, resolved.scope.instancesDir)
              /\ \A p \in DOMAIN files \ {getProjectFilePath(
                                            resolved.scope.environment,
                                            resolved.scope.projectId)} :
                   readJson(out.fs, p) = readJson(FS, p)
              /\ IF k = 1
                   THEN out.fs.files = files
                   ELSE CountOf(out.fs, resolved.scope)
                          = Cardinality(FilesOf(out.fs, resolved.scope))

\* a create of two sources has just failed on its second: it exited with
\* code 1, and the instance of the first source is there and is counted
FirstOfTwoSourcesKept ==
  /\ last.op = "create"
  /\ last.exit = 1
  /\ last.err = "InvalidName"
  /\ last.created = <<HarnessOne>>
  /\ \E p \in AllInstanceFiles(FS) :
       /\ AllInstanceFiles(FS) = {p}
       /\ readJson(FS, p).name = HarnessOne
       /\ readJson(FS, p).target = "swarm"
       /\ readJson(FS, getProjectFilePath(p[2], p[4])).runtimeCount = 1

(***************************************************************************)
(* Properties of a root whose init died before the context was written.    *)
(***************************************************************************)
\* the manifest is there and the context is not
CrashedRoot == pathExists(FS, manifestPath) /\ ~pathExists(FS, contextPath)

\* init with force has just succeeded
ForcedInitSucceeded == last.op = "init" /\ last.force /\ last.err = ""

\* what holds on every root whose init died between manifest and context:
\* resolveProjectScope fails with ContextMissing and init without force
\* with AlreadyInitialized, both leaving the root as it is
CrashedRootRefuses ==
  CrashedRoot =>
    /\ \A env \in EnvOptions, project \in ProjectOptions :
         resolveProjectScope(FS, [environment |-> env,
                                  projectId |-> project]).fs.err = "ContextMissing"
    /\ \A organizationId \in OrganizationIds, apiKey \in ApiKeys :
         LET out == initializeState(FS, [orgName |-> Acme, force |-> FALSE],
                                    clock, organizationId, apiKey)
         IN /\ out.fs.err = "AlreadyInitialized"
            /\ out.fs.files = files
            /\ out.fs.dirs = dirs

\* C27 as amended: the context is never there without the manifest and the
\* project record it names.  On a root whose init died between the write
\* of the manifest and the write of the context, resolveProjectScope fails
\* with ContextMissing, init without force fails with AlreadyInitialized,
\* project use fails, init with force makes a fresh root, and context set
\* succeeds exactly for the projects whose record was already written.  A
\* step from such a root to a root with a context is a successful init
\* with force or a successful context set to a project that was there.
CrashedRootNeedsForceOrContextSet ==
  /\ [](/\ pathExists(FS, contextPath) =>
             /\ pathExists(FS, manifestPath)
             /\ ProjectExists(FS, readJson(FS, contextPath).environment,
                              readJson(FS, contextPath).projectId)
        /\ CrashedRootRefuses
        /\ CrashedRoot =>
             /\ \A organizationId \in OrganizationIds, apiKey \in ApiKeys :
                  FreshRoot(initializeState(FS, [orgName |-> Acme, force |-> TRUE],
                                            clock, organizationId, apiKey).fs)
             /\ \A env \in EnvOptions, project \in ProjectIds :
                  projectUseCommand(FS, project, [env |-> env], clock).err # ""
             /\ \A env \in EnvironmentNames, project \in ProjectIds :
                  (contextSetCommand(FS, [env |-> env, project |-> project],
                                     clock).err = "")
                    = ProjectExists(FS, env, project))
  /\ [][(CrashedRoot /\ pathExists(FS, contextPath)') =>
          \/ ForcedInitSucceeded'
          \/ /\ last'.op = "contextSet"
             /\ last'.err = ""
             /\ \E env \in EnvironmentNames, project \in ProjectIds :
                  /\ ProjectExists(FS, env, project)
                  /\ files' = contextSetCommand(FS, [env |-> env,
                                                     project |-> project],
                                                clock).files]_vars

\* C27: on a root whose init died between the write of the manifest and
\* the write of the context, resolveProjectScope fails with ContextMissing
\* and init without force with AlreadyInitialized, and every step from
\* such a root to one with a context is a successful init with force.
OnlyForcedInitRepairsCrashedRoot ==
  /\ []CrashedRootRefuses
  /\ [][(CrashedRoot /\ pathExists(FS, contextPath)') => ForcedInitSucceeded']_vars

\* context set has just given a context to a root whose init died after
\* the production project was written: no .gitkeep, and the default scope
\* resolves
ContextSetRepairedCrashedRoot ==
  /\ last.op = "contextSet"
  /\ last.err = ""
  /\ pathExists(FS, manifestPath)
  /\ developmentProjectsDir \o <<".gitkeep">> \notin DOMAIN files
  /\ readJson(FS, contextPath).environment = "production"
  /\ resolveProjectScope(FS, [environment |-> Undefined,
                              projectId |-> Undefined]).fs.err = ""

(***************************************************************************)
(* Properties of what a command leaves alone outside its scope.            *)
(***************************************************************************)
\* the paths at or below the project directory of a scope
InScope(scope, p) ==
  /\ Len(p) >= Len(getProjectDir(scope.environment, scope.projectId))
  /\ SubSeq(p, 1, Len(getProjectDir(scope.environment, scope.projectId)))
       = getProjectDir(scope.environment, scope.projectId)

\* every file and directory outside the scope is as it was: the instance
\* files, run files and project records of the other scopes, the context
OutsideUnchanged(scope, out) ==
  /\ {p \in DOMAIN out.files : ~InScope(scope, p)}
       = {p \in DOMAIN files : ~InScope(scope, p)}
  /\ \A p \in DOMAIN files : ~InScope(scope, p) => out.files[p] = files[p]
  /\ {d \in out.dirs : ~InScope(scope, d)} = {d \in dirs : ~InScope(scope, d)}
  /\ contextPath \in DOMAIN files
  /\ out.files[contextPath] = files[contextPath]

\* C28: a create or a run in one scope leaves the instance files, run
\* files and project record of every other scope, and the context, as they
\* were; a create with an explicit name is refused as a duplicate exactly
\* when its own scope holds the name, whatever the other scopes hold.
OtherScopesUntouched ==
  \A at \in ScopeOptions :
    LET resolved == Resolved(at)
    IN resolved.fs.err = "" =>
         /\ \A args \in CreateArgs :
              LET out == createCommand(FS, args.inputs,
                                       CreateOptions(args, at), clock)
              IN /\ OutsideUnchanged(resolved.scope, out.fs)
                 /\ (args.name # NoName /\ sanitizeName(args.name) # <<>>) =>
                      (out.fs.err = "DuplicateName")
                        = (sanitizeName(args.name)
                             \in NamesIn(FS, resolved.scope.instancesDir))
         /\ \A name \in RunNames, dryRun \in BOOLEAN :
              \A out \in runCommand(FS, RunOptions(at, name, dryRun), clock) :
                OutsideUnchanged(resolved.scope, out.fs)

\* a create named my-harness has just succeeded while another scope holds
\* an instance of that name, which was made earlier and is as it was made
SameNameInTwoScopes ==
  /\ last.op = "create"
  /\ last.err = ""
  /\ last.created = <<MyHarness>>
  /\ \E p \in AllInstanceFiles(FS), q \in AllInstanceFiles(FS) :
       /\ p[2] # q[2]
       /\ readJson(FS, p).name = MyHarness
       /\ readJson(FS, q).name = MyHarness
       /\ readJson(FS, p).createdAt < readJson(FS, q).createdAt
       /\ readJson(FS, p).updatedAt = readJson(FS, p).createdAt
       /\ readJson(FS, getProjectFilePath(p[2], p[4])).runtimeCount = 1
       /\ readJson(FS, getProjectFilePath(q[2], q[4])).runtimeCount = 1

(***************************************************************************)
(* Properties of the life of an instance record.                           *)
(***************************************************************************)
CreatedShape(r) ==
  /\ r.status = "created"
  /\ r.running = FALSE
  /\ r.runCount = 0
  /\ "lastRunAt" \notin DOMAIN r

RunningShape(r) ==
  /\ r.status = "running"
  /\ r.running = TRUE
  /\ r.runCount >= 1
  /\ "lastRunAt" \in DOMAIN r

\* every instance record is as created or as run
InstanceShapes ==
  \A p \in AllInstanceFiles(FS) :
    CreatedShape(readJson(FS, p)) \/ RunningShape(readJson(FS, p))

\* an instance file that a step keeps stays "running" if it was, and its
\* runCount does not go down
NoWayBack ==
  \A p \in DOMAIN files \cap DOMAIN files' :
    (Len(p) = 6 /\ p[5] = "instances" /\ files[p].status = "running") =>
      /\ files'[p].status = "running"
      /\ files'[p].runCount >= files[p].runCount

\* C29: in every state every instance record is either "created" with
\* running false, runCount 0 and no lastRunAt, or "running" with running
\* true, runCount at least 1 and a lastRunAt; no step takes an instance
\* file from "running" to another status.
InstancesAreCreatedOrRunning == []InstanceShapes /\ [][NoWayBack]_vars

\* the instances have just been listed, and one is as created while
\* another has been run
BothShapesListed ==
  /\ last.op = "instanceList"
  /\ last.err = ""
  /\ \E p \in AllInstanceFiles(FS), q \in AllInstanceFiles(FS) :
       /\ CreatedShape(readJson(FS, p))
       /\ RunningShape(readJson(FS, q))
       /\ readJson(FS, q).lastRunAt = readJson(FS, q).updatedAt

(***************************************************************************)
(* Properties of runs that run interleaved.                                *)
(***************************************************************************)
\* the run processes that saved their record
Savers == {pid \in Pids : procs[pid].phase = "done" /\ procs[pid].err = ""}

\* C30: the record a run leaves is the one it found, marked as started:
\* its runCount is one more than the runCount the run found, whatever was
\* saved in between.  So when two runs of one instance both found the same
\* runCount before either saved, and no third run touched the instance,
\* both succeed and the runCount is that count plus 1; and two runs one
\* after the other leave it 2 higher than before.
OverlappingRunsCountOnce ==
  /\ \A p \in Savers :
       (last.op = "run" /\ last.pid = p) =>
         /\ readJson(FS, procs[p].filePath).runCount
              = procs[p].record.runCount + 1
         /\ readJson(FS, procs[p].filePath).status = "running"
  /\ \A p \in Savers, q \in Savers :
       (/\ p # q
        /\ procs[p].filePath = procs[q].filePath
        /\ procs[p].record.runCount = procs[q].record.runCount
        /\ \A other \in Pids \ {p, q} :
             procs[other].filePath # procs[p].filePath) =>
         readJson(FS, procs[p].filePath).runCount = procs[p].record.runCount + 1
  /\ \A at \in ScopeOptions, name \in RunNames :
       Named(at, name) # {} =>
         \A first \in runCommand(FS, RunOptions(at, name, FALSE), clock) :
           \A second \in runCommand(first.fs, RunOptions(at, name, FALSE), clock) :
             /\ second.fs.err = ""
             /\ second.filePath = first.filePath =>
                  readJson(second.fs, second.filePath).runCount
                    = readJson(FS, first.filePath).runCount + 2

\* both runs have returned with success, both had found the instance with
\* runCount 0, and its runCount is 1
TwoRunsCountedOnce ==
  /\ \A pid \in Pids : pid \in Savers
  /\ \E p \in Pids, q \in Pids :
       /\ p # q
       /\ procs[p].filePath = procs[q].filePath
       /\ procs[p].record.runCount = 0
       /\ procs[q].record.runCount = 0
       /\ readJson(FS, procs[p].filePath).runCount = 1
       /\ readJson(FS, procs[p].filePath).status = "running"

====
